---- MODULE Spec2Model ----
(***************************************************************************)
(* Verification model of the opencode-tauri IPC broker (client-core).      *)
(*                                                                         *)
(*   - the per-connection authentication gate and message loop             *)
(*     (ipc/server.rs, ipc/connection_state.rs)                            *)
(*   - the state actor that owns the current-backend binding               *)
(*     (ipc/state.rs) and the HTTP client derived from it                  *)
(*     (opencode_client/mod.rs)                                            *)
(*   - the config actor as far as the dispatch table reaches it            *)
(*     (ipc/config_state.rs, config/mod.rs)                                *)
(*                                                                         *)
(* Strings that the code parses or compares piecewise are modelled as      *)
(* sequences of tokens (a URL "http://127.0.0.1:4096" is                   *)
(* <<"http", "://", "127.0.0.1", ":", 4096>>), so that parsing is a        *)
(* computation that can fail and a parsed value differs from its text.     *)
(***************************************************************************)
EXTENDS Integers, Sequences, FiniteSets, TLC

\* ------------------------------------------------------------------ bounds
\* connections the accept loop hands to handle_connection
NumConns == 2
\* frames read by the server, all connections together
MaxFrames == 3
\* request ids a client uses: 1..MaxRequestId
MaxRequestId == 2
\* backend processes that discovery or spawn can come up with
NumBackends == 2
\* update() calls made by the callers of the IpcState API (SpecState)
MaxCmds == 3
\* get_server / get_opencode_client calls made by the readers (SpecState)
MaxReads == 3
\* next_backoff() calls that return a delay before the verification loop of
\* stop_pid runs out of time
MaxBackoffs == 2
\* UpdateAppConfig commands sent through ConfigState::update
MaxConfigCmds == 3
\* calls of spawn_and_wait, one after the other
MaxSpawns == 2
\* milliseconds in one tick of the clock that spawn_and_wait's waits are
\* measured with
Tick == 250
\* tasks that call update() and get_server() on clones of one state handle
NumTasks == 2
\* calls each of these tasks makes
MaxTaskCalls == 2
\* commands the channel is let to hold when the tasks run, so that senders
\* meet a full channel
MaxQueued == 1
\* calls of is_retryable recorded
MaxRetryCalls == 2
\* operations on RedactedApiKey values recorded
MaxRedactedCalls == 2
\* calls of AppConfig::save, one after the other
MaxSaves == 2
\* entries of the [mappings] table of opencode_fields.toml
MaxMappings == 2
\* nodes (objects, arrays, primitives) of a JSON value given to the codec
MaxJsonNodes == 3

\* ------------------------------------------------------- program constants
\* mpsc::channel(100) of the state actor and of the config actor
ChannelCapacity == 100
\* request_id of every auth handshake reply
AuthRequestId == 1
\* request_id of the reply to a frame that does not decode
UndecodedRequestId == 0
\* CONFIG_VERSION
ConfigVersion == 1
\* base_font_points limits of AppConfig::validate
MinFontPoints == 8
MaxFontPoints == 72

Conns == 1..NumConns
RequestIds == 1..MaxRequestId
Backends == 1..NumBackends
Tasks == 1..NumTasks

None == [none |-> TRUE]
\* Option::Some
Some(x) == [some |-> x]

\* ------------------------------------------------------------ descriptors
\* OPENCODE_SERVER_BASE_URL = concatcp!("http://", OPENCODE_SERVER_HOSTNAME)
OPENCODE_SERVER_HOSTNAME == "127.0.0.1"
OPENCODE_SERVER_BASE_URL == <<"http", "://", OPENCODE_SERVER_HOSTNAME>>
OPENCODE_BINARY == "opencode"

\* format!("{OPENCODE_SERVER_BASE_URL}:{port}")
FormatBaseUrl(port) == OPENCODE_SERVER_BASE_URL \o <<":", port>>

\* pid and port of the b-th backend process of the environment
PidOf(b) == 100 + b
PortOf(b) == 4095 + b

\* IpcServerInfo as discovery and spawn build it
ServerInfo(b, owned) ==
    [pid |-> PidOf(b), port |-> PortOf(b), base_url |-> FormatBaseUrl(PortOf(b)),
     name |-> OPENCODE_BINARY, command |-> "opencode serve", owned |-> owned]

\* base_url texts that do not parse as an absolute URL: the empty text and
\* a scheme without a host
BadBaseUrls == {<<>>, <<"http", "://">>}

\* any IpcServerInfo a caller of IpcState::update may pass (the proto struct
\* is not validated by the state module): the descriptors of the backends,
\* and descriptors whose base_url does not parse
ApiServerInfos ==
    {ServerInfo(b, FALSE) : b \in Backends}
      \cup {[pid |-> 300 + Len(u), port |-> 4096, base_url |-> u,
              name |-> OPENCODE_BINARY, command |-> "opencode serve",
              owned |-> FALSE] : u \in BadBaseUrls}

\* url::Url::parse on the token text: an absolute URL needs a scheme, the
\* "://" separator and a non-empty host; the parsed URL has the path "/".
UrlParse(s) ==
    IF Len(s) >= 3 /\ s[1] \in {"http", "https"} /\ s[2] = "://" /\ s[3] # ""
    THEN [ok |-> TRUE,
          url |-> [scheme |-> s[1], host |-> s[3],
                   port |-> IF Len(s) >= 5 /\ s[4] = ":" THEN s[5] ELSE 80,
                   path |-> "/"]]
    ELSE [ok |-> FALSE]

\* OpencodeClient::new as it would be if it kept the text without parsing it
OpencodeClientNewUnparsed(base_url_str) ==
    [ok |-> TRUE, client |-> [base_url |-> base_url_str, directory |-> None]]

\* OpencodeClient::new: Url::parse(base_url_str)?, then the reqwest client
\* with the default timeout (building it does not fail in this model)
OpencodeClientNew(base_url_str) ==
    LET parsed == UrlParse(base_url_str)
    IN  IF parsed.ok
        THEN [ok |-> TRUE, client |-> [base_url |-> parsed.url, directory |-> None]]
        ELSE [ok |-> FALSE]

VARIABLES
    \* ---- IpcState, one instance per connection (server.rs:242)
    server,        \* Arc<RwLock<Option<IpcServerInfo>>>
    opencode_client, \* Arc<RwLock<Option<OpencodeClient>>>
    actor_init,    \* Arc<Mutex<bool>>
    command_tx,    \* the mpsc channel: commands sent and not yet received
    actor          \* position of state_actor: [pc, cmd, existing]

bindingVars == <<server, opencode_client, actor_init, command_tx, actor>>

VARIABLES
    \* ---- callers of the IpcState API (SpecState)
    nsent,         \* number of commands accepted by update()
    nreads,        \* number of reads made
    lastRead       \* the call and the value of the latest read, with the
                   \* content of the other cell at the instant of the read
                   \* and whether the server cell was write-locked then

apiVars == <<nsent, nreads, lastRead>>

VARIABLES
    \* ---- handle_connection, one task per accepted connection
    pc,            \* position of the task: "listen" (not yet accepted),
                   \* "await_auth", "read", "handle", "done"
    state,         \* ConnectionState: [authenticated, expected_token]
    result,        \* value handle_connection returned: "Ok" / "Err", or None
    cur,           \* the decoded message the handler is working on
    nin,           \* number of frames the task has read from the socket
    out,           \* log of the frames written to the socket, in order: for
                   \* each the index of the frame it answers and whether
                   \* it is an AuthHandshakeResponse
    nreq,          \* number of binary frames read in the authenticated loop
    accept_loop,   \* the accept loop task of start_ipc_server is running
    peer           \* Some(address of the peer) once accepted, or None

connVars == <<pc, state, result, cur, nin, out, nreq, accept_loop, peer>>

VARIABLES
    \* ---- what the latest step of the server did on a socket
    last_in,       \* the frame it read: the connection, the frame and its
                   \* index on that connection; None when it read no frame
    last_out,      \* the frame it wrote: the connection, the reply, and the
                   \* frame it answers with its index; None when it wrote none
    last_step      \* the return of handle_message in it: the connection,
                   \* whether it was an Err, and whether the reply that
                   \* followed was sent; None when no handler returned

stepVars == <<last_in, last_out, last_step>>

VARIABLES
    \* ---- ConfigState, one instance shared by all connections
    app_config,    \* Arc<RwLock<AppConfig>>
    config_tx,     \* the mpsc channel of the config actor
    config_init,   \* actor_init of ConfigState
    config_file,   \* Some(content of <config_dir>/config.json), or None
    config_saving  \* the config the actor has written to memory and is
                   \* about to save, or None

configVars == <<app_config, config_tx, config_init, config_file, config_saving>>

VARIABLES
    \* ---- what the handlers did to the world outside the broker
    effects        \* [stopped: pids given to stop_pid, probed: base URLs
                   \*  health-probed, http: base URLs of the clients used]

VARIABLES
    \* ---- the commands the callers and the actors have dealt with so far
    accepted,      \* per IpcState: the commands update() has put into the
                   \* channel, in the order of the sends
    applied,       \* per IpcState: the commands state_actor has received
                   \* and applied to the server cell, in that order
    config_accepted \* the commands ConfigState::update has put into the
                   \* channel of the config actor, in the order of the sends

historyVars == <<accepted, applied, config_accepted>>

VARIABLES
    \* ---- one call of stop_pid and the processes of the machine
    stop_pc,       \* position of the call: "idle", "signal", "verify", "done"
    stop_arg,      \* its argument pid, or None
    stop_ret,      \* the value it returned, or None
    processes,     \* pids of the processes that exist
    signals,       \* signals the call has issued: [pid, signal, sent]
    backoffs       \* next_backoff() calls of the verification loop so far

stopVars == <<stop_pc, stop_arg, stop_ret, processes, signals, backoffs>>

VARIABLES
    \* ---- one ServerInfoBuilder
    builder,       \* its six Option fields
    built          \* what build() returned, or None before the call

builderVars == <<builder, built>>

VARIABLES
    \* ---- the field normalizer: build.rs and the code it generates
    mappings,      \* FieldConfig::mappings read from opencode_fields.toml
    codec_pc,      \* "config" (file not read), "validate", "ready"
                   \* (tables generated), "panicked" (the build failed)
    TO_SNAKE,      \* generated table: JavaScript name -> snake_case name
    TO_JS,         \* generated table: snake_case name -> JavaScript name
    key_call,      \* a key and what the calls made on it so far returned
    json_call      \* a JSON value and what the calls made on it returned

codecVars == <<mappings, codec_pc, TO_SNAKE, TO_JS, key_call, json_call>>

VARIABLES
    \* ---- AppConfig::save and AppConfig::load on the config directory
    files,         \* Some(content) of config.json and of config.json.tmp, or None
    save_pc,       \* position of the call of save: "idle", "create_dir",
                   \* "create", "write", "rename"
    save_cfg,      \* the config being saved, or None
    save_prev,     \* content of config.json when the call began
    save_ret,      \* how the last call ended, or None
    nsaves,        \* calls of save so far
    loaded         \* what the last call of load returned, or None

saveVars == <<files, save_pc, save_cfg, save_prev, save_ret, nsaves, loaded>>

VARIABLES
    \* ---- AuthSyncError::is_retryable and HttpStatusCode::is_retryable
    retry_calls    \* the calls made: [fn, arg, ret]

retryVars == <<retry_calls>>

VARIABLES
    \* ---- RedactedApiKey
    redacted_calls \* the operations made: [op, key, ret]

redactedVars == <<redacted_calls>>

VARIABLES
    \* ---- the auth-source probe (auth_sync/oauth.rs)
    auth_file,     \* what the probe finds at the backend's auth.json, or None
                   \* while the environment has not been fixed
    probe_single,  \* last call of check_oauth_status: [provider, ret]
    probe_batch    \* last call of check_oauth_status_batch: [providers, ret]

probeVars == <<auth_file, probe_single, probe_batch>>

VARIABLES
    \* ---- spawn_and_wait (discovery/spawn.rs)
    spawn_pc,          \* where the call is: "idle", "spawn", "parse", "health",
                       \* "backoff", "kill", "return_err", "ready"
    child,             \* the spawned process: None, "running", "killed",
                       \* "exited" or "detached"
    kill_sent,         \* child.kill() was called in this call
    elapsed,           \* ticks since the backoff was made
    current_interval,  \* the backoff's current_interval, in ticks
    last_probe,        \* what the latest check_health returned, or None
    last_backoff,      \* what the latest next_backoff() returned, or None
    health_err,        \* the error wait_for_health returned, or None
    spawn_ret,         \* what the latest call returned, or None
    nspawns            \* calls made

healthVars == <<spawn_pc, child, kill_sent, elapsed, current_interval, last_probe,
                last_backoff, health_err, spawn_ret, nspawns>>

VARIABLES
    \* ---- tasks on clones of one state handle (IpcState, ConfigState and
    \* AppState share the code of update and ensure_actor)
    task_pc,       \* per task: "idle", "init_lock", "store_tx", "tx_lock",
                   \* "send", "read"
    task_op,       \* per task: the call it is in or made last, or None
    task_ret,      \* per task: what its latest call returned, or None
    ntask_calls,   \* per task: calls begun
    init_guard,    \* Some(task that holds the actor_init mutex), or None
    tx_guard,      \* Some(task that holds the command_tx mutex), or None
    tx_slot,       \* the Option in command_tx is Some(sender)
    channels,      \* mpsc::channel(100) calls made
    consumers      \* tokio::spawn(state_actor(..)) calls made

taskVars == <<task_pc, task_op, task_ret, ntask_calls, init_guard, tx_guard, tx_slot,
              channels, consumers>>

\* the library code outside the IPC server
libVars == <<saveVars, retryVars, redactedVars, probeVars, healthVars, taskVars>>

\* the units that are also exercised on their own
unitVars == <<stopVars, builderVars, codecVars, libVars>>

\* the IPC server and its two actors
brokerVars == <<bindingVars, apiVars, connVars, stepVars, configVars, effects, historyVars>>

vars == <<brokerVars, unitVars>>

\* a step that reads no frame, writes none and returns from no handler
Quiet == last_in' = None /\ last_out' = None /\ last_step' = None

\* a step that writes no frame
NoReply == out' = out /\ last_out' = None

ActorIdle == [pc |-> "recv", cmd |-> None, existing |-> None]

\* IpcState::new
IpcStateNew ==
    /\ server = [c \in Conns |-> None]
    /\ opencode_client = [c \in Conns |-> None]
    /\ actor_init = [c \in Conns |-> FALSE]
    /\ command_tx = [c \in Conns |-> <<>>]
    /\ actor = [c \in Conns |-> ActorIdle]

SetServer(info) == [type |-> "SetServer", info |-> info]
ClearServer == [type |-> "ClearServer"]

\* state_actor as it would be if it dropped the server guard before it
\* wrote the client cell
ServerWriteUnlocked(c) == FALSE

\* the server cell is write-locked from the start of a command to its end
ServerWriteLocked(c) == actor[c].pc = "client"

\* IpcState::update: ensure_actor (spawn the actor on the first call, with
\* the sender stored first), then tx.send(cmd) on the bounded channel
UpdateEffect(c, cmd) ==
    /\ Len(command_tx[c]) < ChannelCapacity
    /\ actor_init' = [actor_init EXCEPT ![c] = TRUE]
    /\ command_tx' = [command_tx EXCEPT ![c] = Append(@, cmd)]
    /\ accepted' = [accepted EXCEPT ![c] = Append(@, cmd)]

\* the receiver as it would be if it handed out the newest command first
RecvNewest(queue) ==
    [cmd |-> queue[Len(queue)], rest |-> SubSeq(queue, 1, Len(queue) - 1)]

\* mpsc::Receiver::recv on a channel that holds commands: the oldest command
\* and the channel without it
Recv(queue) == [cmd |-> Head(queue), rest |-> Tail(queue)]

\* state_actor as it would be if a SetServer did not replace a descriptor
\* that is there
ActorRecvKeepsExisting(c) ==
    /\ actor_init[c]
    /\ actor[c].pc = "recv"
    /\ command_tx[c] # <<>>
    /\ LET cmd == Recv(command_tx[c]).cmd
       IN  /\ command_tx' = [command_tx EXCEPT ![c] = Recv(@).rest]
           /\ server' = [server EXCEPT ![c] =
                           IF cmd.type = "SetServer"
                           THEN (IF @ = None THEN cmd.info ELSE @)
                           ELSE None]
           /\ actor' = [actor EXCEPT ![c] =
                           [pc |-> "client", cmd |-> cmd, existing |-> server[c]]]
           /\ applied' = [applied EXCEPT ![c] = Append(@, cmd)]
    /\ Quiet
    /\ UNCHANGED <<opencode_client, actor_init, apiVars, connVars, configVars, effects,
                   accepted, config_accepted, unitVars>>

\* state_actor, first half of a command: recv, take the server write lock,
\* look at the existing descriptor (for the log line) and overwrite the cell
ActorRecv(c) ==
    /\ actor_init[c]
    /\ actor[c].pc = "recv"
    /\ command_tx[c] # <<>>
    /\ LET cmd == Recv(command_tx[c]).cmd
       IN  /\ command_tx' = [command_tx EXCEPT ![c] = Recv(@).rest]
           /\ server' = [server EXCEPT ![c] =
                           IF cmd.type = "SetServer" THEN cmd.info ELSE None]
           /\ actor' = [actor EXCEPT ![c] =
                           [pc |-> "client", cmd |-> cmd, existing |-> server[c]]]
           /\ applied' = [applied EXCEPT ![c] = Append(@, cmd)]
    /\ Quiet
    /\ UNCHANGED <<opencode_client, actor_init, apiVars, connVars, configVars, effects,
                   accepted, config_accepted, unitVars>>

\* the client cell after the command: SetServer stores the client built from
\* the new base URL, or None when building fails; ClearServer stores None
ClientAfter(cmd) ==
    IF cmd.type = "SetServer"
    THEN LET r == OpencodeClientNew(cmd.info.base_url)
         IN  IF r.ok THEN r.client ELSE None
    ELSE None

\* state_actor, second half: write the client cell, then both guards drop
ActorClient(c) ==
    /\ actor[c].pc = "client"
    /\ opencode_client' = [opencode_client EXCEPT ![c] = ClientAfter(actor[c].cmd)]
    /\ actor' = [actor EXCEPT ![c] = ActorIdle]
    /\ Quiet
    /\ UNCHANGED <<server, actor_init, command_tx, apiVars, connVars, configVars, effects,
                   historyVars, unitVars>>

\* ------------------------------------------------- callers of the state API
ApiInstance == CHOOSE c \in Conns : \A d \in Conns : c <= d

ApiUpdate(cmd) ==
    /\ nsent < MaxCmds
    /\ UpdateEffect(ApiInstance, cmd)
    /\ nsent' = nsent + 1
    /\ Quiet
    /\ UNCHANGED <<server, opencode_client, actor, nreads, lastRead, connVars, configVars,
                   effects, applied, config_accepted, unitVars>>

\* IpcState::get_server: server.read().await.clone()
ApiGetServer ==
    /\ nreads < MaxReads
    /\ ~ServerWriteLocked(ApiInstance)
    /\ nreads' = nreads + 1
    /\ lastRead' = [op |-> "get_server", value |-> server[ApiInstance],
                    other |-> opencode_client[ApiInstance],
                    locked |-> ServerWriteLocked(ApiInstance)]
    /\ Quiet
    /\ UNCHANGED <<bindingVars, nsent, connVars, configVars, effects, historyVars, unitVars>>

\* IpcState::get_opencode_client: opencode_client.read().await.clone()
ApiGetClient ==
    /\ nreads < MaxReads
    /\ nreads' = nreads + 1
    /\ lastRead' = [op |-> "get_opencode_client",
                    value |-> opencode_client[ApiInstance],
                    other |-> server[ApiInstance],
                    locked |-> ServerWriteLocked(ApiInstance)]
    /\ Quiet
    /\ UNCHANGED <<bindingVars, nsent, connVars, configVars, effects, historyVars, unitVars>>


\* ------------------------------------------------------------ wire protocol
\* auth_token of start_ipc_server and the tokens a client may present
ExpectedToken == "tok"
Tokens == {"tok", "TOK", ""}

\* AppConfig, reduced to the fields validate() looks at
AppConfig(version, points, url) ==
    [version |-> version, base_font_points |-> points, last_opencode_url |-> url]

\* AppConfig::default
AppConfigDefault == AppConfig(ConfigVersion, 14, None)

\* serde_json::to_string / from_str on AppConfig: the JSON text of a config
\* is tagged, any other text fails to deserialize
ToJson(cfg) == <<"json", cfg>>
FromJson(text) ==
    IF Len(text) = 2 /\ text[1] = "json"
    THEN [ok |-> TRUE, value |-> text[2]] ELSE [ok |-> FALSE]

\* config_json texts a client sends: text that is no JSON, a config that
\* passes validation, and one that does not (version 0)
ConfigJsons ==
    {<<"{">>, ToJson(AppConfig(ConfigVersion, 20, None)), ToJson(AppConfig(0, 14, None))}

\* ipc_client_message::Payload
AuthHandshake(token) == [kind |-> "AuthHandshake", token |-> token]
PlainKinds ==
    {"DiscoverServer", "SpawnServer", "CheckHealth", "StopServer", "ListSessions",
     "CreateSession", "DeleteSession", "GetConfig", "Other"}
Payloads ==
    {AuthHandshake(t) : t \in Tokens}
      \cup {[kind |-> k] : k \in PlainKinds}
      \cup {[kind |-> "UpdateConfig", config_json |-> j] : j \in ConfigJsons}

\* IpcClientMessage: payload is an Option
ClientMessages ==
    {[request_id |-> i, payload |-> p] : i \in RequestIds, p \in Payloads \cup {None}}

\* prost encode / decode of IpcClientMessage: bytes that are not an encoded
\* message fail to decode
Encode(msg) == <<"pb", msg>>
Decode(data) ==
    IF Len(data) = 2 /\ data[1] = "pb"
    THEN [ok |-> TRUE, msg |-> data[2]] ELSE [ok |-> FALSE]

\* tungstenite Message: binary frames, and everything else (text, ping, ...)
Frames ==
    {[type |-> "Text"]}
      \cup {[type |-> "Binary", data |-> d] :
                d \in {<<"junk">>} \cup {Encode(m) : m \in ClientMessages}}

\* IpcErrorCode
AuthError == "AUTH_ERROR"
InvalidMessage == "INVALID_MESSAGE"
InternalError == "INTERNAL_ERROR"
NotImplemented == "NOT_IMPLEMENTED"

\* Display of IpcError::Io: "IO Error: {message} {location}"
IoErrorToString(message) == <<"IO Error:">> \o message \o <<"[location]">>

\* IpcServerMessage of send_auth_response
AuthResponse(success, error) ==
    [request_id |-> AuthRequestId,
     payload |-> [kind |-> "AuthHandshakeResponse", success |-> success, error |-> error]]

\* send_error_response as it would be if it did not use its request_id
ErrorResponseWithoutId(request_id, code, message) ==
    [request_id |-> UndecodedRequestId,
     payload |-> [kind |-> "Error", code |-> code, message |-> message]]

\* IpcServerMessage of send_error_response
ErrorResponse(request_id, code, message) ==
    [request_id |-> request_id,
     payload |-> [kind |-> "Error", code |-> code, message |-> message]]

\* the payload of the same message
ErrorPayload(code, message) == [kind |-> "Error", code |-> code, message |-> message]

\* IpcServerMessage built by a handler
Response(request_id, payload) == [request_id |-> request_id, payload |-> payload]

\* ConnectionState::new
ConnectionStateNew(token) == [authenticated |-> FALSE, expected_token |-> token]

\* validate_token as it would be with a comparison that ignores case
ValidateTokenIgnoringCase(st, token) ==
    LET lower(t) == IF t = "TOK" THEN "tok" ELSE t IN
    IF lower(token) = lower(st.expected_token)
    THEN [ret |-> TRUE, st |-> [st EXCEPT !.authenticated = TRUE]]
    ELSE [ret |-> FALSE, st |-> st]

\* ConnectionState::validate_token: the returned flag and the state after
ValidateToken(st, token) ==
    IF token = st.expected_token
    THEN [ret |-> TRUE, st |-> [st EXCEPT !.authenticated = TRUE]]
    ELSE [ret |-> FALSE, st |-> st]

\* the binary frame that carries msg
Frame(msg) == [type |-> "Binary", data |-> Encode(msg)]

RECURSIVE Sum(_, _)
Sum(f, S) ==
    IF S = {} THEN 0
    ELSE LET x == CHOOSE y \in S : TRUE IN f[x] + Sum(f, S \ {x})

\* frames read so far, all connections together
FramesRead == Sum(nin, Conns)

\* ---------------------------------------------------------- accept loop
\* addresses of the peers that connect
LoopbackAddrs == {"127.0.0.1"}
PeerAddrs == LoopbackAddrs \cup {"192.168.1.7"}

\* addr.ip().is_loopback() as it would be if it let every peer in
IsLoopbackAnyPeer(addr) == TRUE

\* addr.ip().is_loopback()
IsLoopback(addr) == addr \in LoopbackAddrs

\* handle_connection, server.rs:164-181: where the task goes and what it
\* returns, given the peer's address and whether accept_async succeeds
Accepted(addr, upgraded) ==
    IF ~IsLoopback(addr) THEN [then |-> "done", ret |-> "Ok"]
    ELSE IF ~upgraded THEN [then |-> "done", ret |-> "Err"]
    ELSE [then |-> "await_auth", ret |-> None]

\* start_ipc_server's accept loop hands a new connection to handle_connection,
\* which returns at once for a non-loopback peer (Ok) or a failed WebSocket
\* upgrade (Err) and otherwise waits for the first frame.
Accept(c) ==
    /\ accept_loop
    /\ pc[c] = "listen"
    /\ \A d \in Conns : d < c => pc[d] # "listen"
    /\ \E addr \in PeerAddrs, upgraded \in BOOLEAN :
         LET o == Accepted(addr, upgraded) IN
         /\ peer' = [peer EXCEPT ![c] = Some(addr)]
         /\ pc' = [pc EXCEPT ![c] = o.then]
         /\ result' = [result EXCEPT ![c] = IF o.then = "done" THEN o.ret ELSE @]
    /\ Quiet
    /\ UNCHANGED <<state, cur, nin, out, nreq,
                   accept_loop, bindingVars, apiVars, configVars, effects, historyVars, unitVars>>

\* listener.accept() returns an error: the `while let Ok(..)` loop ends
AcceptFails ==
    /\ accept_loop
    /\ \E c \in Conns : pc[c] = "listen"
    /\ accept_loop' = FALSE
    /\ Quiet
    /\ UNCHANGED <<pc, state, result, cur, nin, out, nreq, peer,
                   bindingVars, apiVars, configVars, effects, historyVars, unitVars>>

\* the task goes on at next_pc without returning
Goto(c, next_pc) ==
    /\ pc' = [pc EXCEPT ![c] = next_pc]
    /\ UNCHANGED <<result, cur>>

\* handle_connection returns
Return(c, value) ==
    /\ pc' = [pc EXCEPT ![c] = "done"]
    /\ result' = [result EXCEPT ![c] = value]
    /\ cur' = [cur EXCEPT ![c] = None]

\* write.send(..).await? of the send_* helpers, answering frame `re`: the
\* frame is written and the task goes on at next_pc, or the send fails
\* (the peer is gone) and the error ends the task
Send(c, reply, re, next_pc, sent) ==
        IF sent
        THEN /\ out' = [out EXCEPT ![c] =
                          Append(@, [at |-> nin'[c],
                                     handshake |-> reply.payload.kind
                                                     = "AuthHandshakeResponse"])]
             /\ last_out' = [conn |-> c, reply |-> reply, re |-> re, at |-> nin'[c]]
             /\ pc' = [pc EXCEPT ![c] = next_pc]
             /\ IF next_pc = "done"
                THEN result' = [result EXCEPT ![c] = "Ok"]
                ELSE result' = result
             /\ cur' = [cur EXCEPT ![c] = None]
        ELSE /\ NoReply
             /\ Return(c, "Err")

\* what read.next().await yields: a frame, the end of the stream, or a read
\* error
StreamNext ==
    {[ev |-> "eof"], [ev |-> "err"]}
      \cup (IF FramesRead < MaxFrames
            THEN {[ev |-> "frame", frame |-> f] : f \in Frames} ELSE {})

\* the count of frames read and the latest frame, after the stream yielded n
Read(c, n) ==
    /\ nin' = [nin EXCEPT ![c] = IF n.ev = "frame" THEN @ + 1 ELSE @]
    /\ last_in' = IF n.ev = "frame"
                  THEN [conn |-> c, frame |-> n.frame, at |-> nin[c] + 1]
                  ELSE None

\* server.rs:215-221 as it would be without its return: the task falls
\* through to the authenticated loop
FirstOtherFallsThrough(st) ==
    [st |-> st, send |-> None, then |-> "read", ret |-> None]

\* server.rs:215-221, the first message is not an auth handshake: close the
\* connection without a response
FirstOther(st) ==
    [st |-> st, send |-> None, then |-> "done", ret |-> "Ok"]

\* server.rs:201-213 as it would be without its return
FirstRefusedFallsThrough(st) ==
    [st |-> st, send |-> AuthResponse(FALSE, "Invalid authentication token"),
     then |-> "read", ret |-> None]

\* server.rs:201-213, the token is not the expected one: send the failure
\* response and close the connection
FirstRefused(st) ==
    [st |-> st, send |-> AuthResponse(FALSE, "Invalid authentication token"),
     then |-> "done", ret |-> "Ok"]

\* handle_connection, server.rs:186-239, as a function of the connection
\* state and of what the stream yielded: the state after, the reply to send
\* (or None), where the task goes when the reply was sent, and the value it
\* returns otherwise
FirstFrame(st, n) ==
    LET close(ret) == [st |-> st, send |-> None, then |-> "done", ret |-> ret] IN
    IF n.ev = "eof" THEN close("Ok")
    ELSE IF n.ev = "err" THEN close("Err")
    ELSE IF n.frame.type # "Binary" THEN close("Ok")
    ELSE LET d == Decode(n.frame.data) IN
        IF ~d.ok THEN close("Err")
        ELSE IF d.msg.payload # None /\ d.msg.payload.kind = "AuthHandshake" THEN
            LET v == ValidateToken(st, d.msg.payload.token) IN
            IF v.ret
            THEN [st |-> v.st, send |-> AuthResponse(TRUE, None),
                  then |-> "read", ret |-> None]
            ELSE FirstRefused(v.st)
        ELSE FirstOther(st)

RecvFirst(c) ==
    /\ pc[c] = "await_auth"
    /\ \E n \in StreamNext :
         LET o == FirstFrame(state[c], n) IN
         /\ Read(c, n)
         /\ state' = [state EXCEPT ![c] = o.st]
         /\ IF o.send # None
            THEN \E sent \in BOOLEAN : Send(c, o.send, n.frame, o.then, sent)
            ELSE /\ NoReply
                 /\ IF o.then = "done" THEN Return(c, o.ret) ELSE Goto(c, o.then)
    /\ last_step' = None
    /\ UNCHANGED <<nreq, accept_loop, peer, bindingVars, apiVars, configVars,
                   effects, historyVars, unitVars>>

\* the turn as it would be if the reply to an envelope without payload did
\* not carry the envelope's request_id
LoopFrameDropsId(n) ==
    IF n.ev = "eof" THEN [act |-> "return", ret |-> "Ok"]
    ELSE IF n.ev = "err" THEN [act |-> "return", ret |-> "Err"]
    ELSE IF n.frame.type # "Binary" THEN [act |-> "ignore"]
    ELSE LET d == Decode(n.frame.data) IN
        IF ~d.ok THEN
            [act |-> "reply",
             send |-> ErrorResponse(UndecodedRequestId, InvalidMessage,
                                    "Invalid protobuf message")]
        ELSE IF d.msg.payload = None THEN
            [act |-> "reply",
             send |-> ErrorResponse(UndecodedRequestId, InvalidMessage,
                                    "No payload in message")]
        ELSE [act |-> "dispatch", msg |-> d.msg]

\* the turn as it would be if a frame that is not binary were handed to the
\* decoder like a binary one
LoopFrameDecodesText(n) ==
    IF n.ev = "eof" THEN [act |-> "return", ret |-> "Ok"]
    ELSE IF n.ev = "err" THEN [act |-> "return", ret |-> "Err"]
    ELSE LET d == IF n.frame.type = "Binary" THEN Decode(n.frame.data)
                  ELSE [ok |-> FALSE] IN
        IF ~d.ok THEN
            [act |-> "reply",
             send |-> ErrorResponse(UndecodedRequestId, InvalidMessage,
                                    "Invalid protobuf message")]
        ELSE IF d.msg.payload = None THEN
            [act |-> "reply",
             send |-> ErrorResponse(d.msg.request_id, InvalidMessage,
                                    "No payload in message")]
        ELSE [act |-> "dispatch", msg |-> d.msg]

\* handle_connection, server.rs:245-305, one turn of the authenticated loop
\* up to the call of handle_message, as a function of what the stream
\* yielded: return, ignore the frame, reply at once, or dispatch the message
LoopFrame(n) ==
    IF n.ev = "eof" THEN [act |-> "return", ret |-> "Ok"]
    ELSE IF n.ev = "err" THEN [act |-> "return", ret |-> "Err"]
    ELSE IF n.frame.type # "Binary" THEN [act |-> "ignore"]
    ELSE LET d == Decode(n.frame.data) IN
        IF ~d.ok THEN
            [act |-> "reply",
             send |-> ErrorResponse(UndecodedRequestId, InvalidMessage,
                                    "Invalid protobuf message")]
        ELSE IF d.msg.payload = None THEN
            [act |-> "reply",
             send |-> ErrorResponse(d.msg.request_id, InvalidMessage,
                                    "No payload in message")]
        ELSE [act |-> "dispatch", msg |-> d.msg]

\* the loop as it would be if it ran each handler in a task of its own and
\* went on reading
CanReadWhileHandling(c) == pc[c] \in {"read", "handle"}

\* the loop reads the next frame only after the turn for the previous one is
\* over: handle_message is awaited in place
CanRead(c) == pc[c] = "read"

RecvFrame(c) ==
    /\ CanRead(c)
    /\ \E n \in StreamNext :
         LET o == LoopFrame(n) IN
         /\ Read(c, n)
         /\ nreq' = [nreq EXCEPT ![c] =
                       IF n.ev = "frame" /\ n.frame.type = "Binary" THEN @ + 1 ELSE @]
         /\ CASE o.act = "return" -> Return(c, o.ret) /\ NoReply
              [] o.act = "ignore" -> UNCHANGED <<pc, result, cur>> /\ NoReply
              [] o.act = "reply" ->
                    \E sent \in BOOLEAN : Send(c, o.send, n.frame, "read", sent)
              [] o.act = "dispatch" ->
                    /\ pc' = [pc EXCEPT ![c] = "handle"]
                    /\ cur' = [cur EXCEPT ![c] = o.msg]
                    /\ UNCHANGED result
                    /\ NoReply
    /\ last_step' = None
    /\ UNCHANGED <<state, accept_loop, peer, bindingVars, apiVars, configVars,
                   effects, historyVars, unitVars>>

\* ------------------------------------------------------------- handlers
\* What a handler did when it returns: Replied(payload, ..) when it wrote its
\* reply and returned Ok, Failed(message) when it returned Err(IpcError::Io).
\* cmd / config_cmd are the commands it sent to the actors (or None), and
\* stopped / probed / http what it did to the backend.
Replied(payload, cmd, config_cmd, stopped, probed, http) ==
    [ok |-> TRUE, payload |-> payload, cmd |-> cmd, config_cmd |-> config_cmd,
     stopped |-> stopped, probed |-> probed, http |-> http]
Failed(message, http) ==
    [ok |-> FALSE, error |-> IoErrorToString(message), cmd |-> None,
     config_cmd |-> None, stopped |-> {}, probed |-> {}, http |-> http]

\* results of process::discover(): an error, no server, or a descriptor
DiscoverOutcomes ==
    {[ok |-> FALSE], [ok |-> TRUE, server |-> None]}
      \cup {[ok |-> TRUE, server |-> ServerInfo(b, TRUE)] : b \in Backends}

\* results of spawn::spawn_and_wait(): an error or the spawned descriptor
SpawnOutcomes ==
    {[ok |-> FALSE]} \cup {[ok |-> TRUE, server |-> ServerInfo(b, TRUE)] : b \in Backends}

\* handle_message as it would be without the AuthHandshake arm: the payload
\* falls to the catch-all
handle_auth_handshake_unmatched ==
    Replied(ErrorPayload(NotImplemented, "Operation not yet implemented"),
            None, None, {}, {}, {})

\* handle_message: AuthHandshake after the initial handshake
handle_auth_handshake ==
    Replied(ErrorPayload(AuthError, "Auth handshake already completed"),
            None, None, {}, {}, {})

\* handle_message: the catch-all arm
handle_other ==
    Replied(ErrorPayload(NotImplemented, "Operation not yet implemented"),
            None, None, {}, {}, {})

\* handle_discover_server, given what process::discover() returned
handle_discover_server(r) ==
    IF ~r.ok THEN Failed(<<"Discovery failed:", "[discovery error]">>, {})
    ELSE Replied([kind |-> "DiscoverServerResponse", server |-> r.server],
                 IF r.server # None THEN SetServer(r.server) ELSE None,
                 None, {}, {}, {})

\* handle_spawn_server, given what spawn::spawn_and_wait() returned
handle_spawn_server(r) ==
    IF ~r.ok THEN Failed(<<"Spawn failed:", "[spawn error]">>, {})
    ELSE Replied([kind |-> "SpawnServerResponse", server |-> r.server],
                 SetServer(r.server), None, {}, {}, {})

\* handle_check_health as it would be if it probed the default base URL when
\* nothing is bound
handle_check_health_unbound(server_info, healthy) ==
    LET base_url == IF server_info = None THEN OPENCODE_SERVER_BASE_URL
                    ELSE server_info.base_url
    IN  Replied([kind |-> "CheckHealthResponse", healthy |-> healthy],
                None, None, {}, {base_url}, {})

\* handle_check_health, given what get_server() and the probe returned
handle_check_health(server_info, healthy) ==
    IF server_info = None THEN Failed(<<"No server connected">>, {})
    ELSE Replied([kind |-> "CheckHealthResponse", healthy |-> healthy],
                 None, None, {}, {server_info.base_url}, {})

\* handle_stop_server, given what get_server() and stop_pid() returned
\* handle_stop_server as it would be if it sent ClearServer whatever stop_pid
\* returned
handle_stop_server_always_clears(server_info, success) ==
    IF server_info = None THEN Failed(<<"No server connected">>, {})
    ELSE Replied([kind |-> "StopServerResponse", success |-> success],
                 ClearServer,
                 None, {server_info.pid}, {}, {})

handle_stop_server(server_info, success) ==
    IF server_info = None THEN Failed(<<"No server connected">>, {})
    ELSE Replied([kind |-> "StopServerResponse", success |-> success],
                 IF success THEN ClearServer ELSE None,
                 None, {server_info.pid}, {}, {})

\* the reply of a session handler whose backend call succeeded
SessionReply(kind) ==
    CASE kind = "ListSessions" -> [kind |-> "SessionList", sessions |-> <<>>]
      [] kind = "CreateSession" -> [kind |-> "SessionInfo"]
      [] kind = "DeleteSession" -> [kind |-> "DeleteSessionResponse", success |-> TRUE]

\* the error text of a session handler whose backend call failed
SessionFailure(kind) ==
    CASE kind = "ListSessions" -> "Failed to list sessions:"
      [] kind = "CreateSession" -> "Failed to create session:"
      [] kind = "DeleteSession" -> "Failed to delete session:"

\* handle_list_sessions, handle_create_session, handle_delete_session, given
\* what get_opencode_client() returned and whether the backend call succeeded
handle_session(kind, client, http_ok) ==
    IF client = None THEN Failed(<<"No OpenCode server connected">>, {})
    ELSE IF http_ok
         THEN Replied(SessionReply(kind), None, None, {}, {}, {client.base_url})
         ELSE Failed(<<SessionFailure(kind), "[client error]">>, {client.base_url})

\* server.rs:267-281 as it would be if the loop propagated the error of
\* handle_message with `?`
AfterHandlerPropagating(r, request_id) ==
    IF r.ok
    THEN [send |-> Response(request_id, r.payload), then |-> "read"]
    ELSE [send |-> None, then |-> "done"]

\* server.rs:267-281, what the loop does with the value handle_message
\* returned: Ok(_) => {} after the handler wrote its reply, and an Err is
\* turned into an Error reply; in both cases the loop goes on
AfterHandler(r, request_id) ==
    IF r.ok
    THEN [send |-> Response(request_id, r.payload), then |-> "read"]
    ELSE [send |-> ErrorResponse(request_id, InternalError, r.error), then |-> "read"]

\* the rest of the turn of the loop: the commands the handler sent are in the
\* channels, what it did to the backend is done, and the reply is written
Finish(c, r) ==
    /\ UNCHANGED <<nin, nreq>>
    /\ last_in' = None
    /\ IF r.cmd # None THEN UpdateEffect(c, r.cmd)
       ELSE UNCHANGED <<actor_init, command_tx, accepted>>
    /\ effects' = [stopped |-> effects.stopped \cup r.stopped,
                   probed |-> effects.probed \cup r.probed,
                   http |-> effects.http \cup r.http]
    /\ LET o == AfterHandler(r, cur[c].request_id) IN
       \E sent \in BOOLEAN :
         /\ last_step' = [conn |-> c, err |-> ~r.ok, sent |-> sent]
         /\ IF o.send # None
            THEN Send(c, o.send, Frame(cur[c]), o.then, sent)
            ELSE NoReply /\ Return(c, "Err")
    /\ UNCHANGED <<state, accept_loop, peer, server, opencode_client, actor, apiVars,
                   applied, unitVars>>

Handling(c, kinds) ==
    /\ pc[c] = "handle"
    /\ cur[c].payload.kind \in kinds

HandleAuthHandshake(c) ==
    /\ Handling(c, {"AuthHandshake"})
    /\ Finish(c, handle_auth_handshake)
    /\ UNCHANGED <<configVars, config_accepted>>

HandleOther(c) ==
    /\ Handling(c, {"Other"})
    /\ Finish(c, handle_other)
    /\ UNCHANGED <<configVars, config_accepted>>

HandleDiscoverServer(c) ==
    /\ Handling(c, {"DiscoverServer"})
    /\ \E r \in DiscoverOutcomes : Finish(c, handle_discover_server(r))
    /\ UNCHANGED <<configVars, config_accepted>>

HandleSpawnServer(c) ==
    /\ Handling(c, {"SpawnServer"})
    /\ \E r \in SpawnOutcomes : Finish(c, handle_spawn_server(r))
    /\ UNCHANGED <<configVars, config_accepted>>

\* get_server() waits while the actor holds the write lock of the server cell
HandleCheckHealth(c) ==
    /\ Handling(c, {"CheckHealth"})
    /\ ~ServerWriteLocked(c)
    /\ \E healthy \in BOOLEAN : Finish(c, handle_check_health(server[c], healthy))
    /\ UNCHANGED <<configVars, config_accepted>>

HandleStopServer(c) ==
    /\ Handling(c, {"StopServer"})
    /\ ~ServerWriteLocked(c)
    /\ \E success \in BOOLEAN : Finish(c, handle_stop_server(server[c], success))
    /\ UNCHANGED <<configVars, config_accepted>>

HandleSession(c) ==
    /\ Handling(c, {"ListSessions", "CreateSession", "DeleteSession"})
    /\ \E http_ok \in BOOLEAN :
         Finish(c, handle_session(cur[c].payload.kind, opencode_client[c], http_ok))
    /\ UNCHANGED <<configVars, config_accepted>>

\* ---------------------------------------------------------------- config
\* str::starts_with("http://") || starts_with("https://") on the token text
HasHttpPrefix(url) ==
    Len(url) >= 2 /\ url[1] \in {"http", "https"} /\ url[2] = "://"

\* AppConfig::validate as it would be without its checks
ValidateAny(cfg) == TRUE

\* AppConfig::validate
Validate(cfg) ==
    /\ ~(cfg.version = 0 \/ cfg.version > ConfigVersion)
    /\ ~(cfg.base_font_points < MinFontPoints \/ cfg.base_font_points > MaxFontPoints)
    /\ cfg.last_opencode_url # None =>
         LET url == cfg.last_opencode_url.some IN
         /\ url # <<>>
         /\ HasHttpPrefix(url)

UpdateAppConfig(cfg) == [type |-> "UpdateAppConfig", config |-> cfg]

\* ConfigState::update: ensure_actor, then tx.send(cmd)
ConfigUpdateEffect(cmd) ==
    /\ Len(config_tx) < ChannelCapacity
    /\ config_init' = TRUE
    /\ config_tx' = Append(config_tx, cmd)
    /\ config_accepted' = Append(config_accepted, cmd)

\* config_actor, config_state.rs:139-155: one command is received; a config
\* that fails validation is dropped, a valid one is written to memory
ConfigActor ==
    /\ config_init
    /\ config_saving = None
    /\ config_tx # <<>>
    /\ config_tx' = Recv(config_tx).rest
    /\ LET cfg == Recv(config_tx).cmd.config IN
       IF ~Validate(cfg)
       THEN UNCHANGED <<app_config, config_saving>>
       ELSE /\ app_config' = cfg
            /\ config_saving' = Some(cfg)
    /\ Quiet
    /\ UNCHANGED <<config_init, config_file, bindingVars, apiVars, connVars, effects,
                   historyVars, unitVars>>

\* how AppConfig::save ends for a config that passes validation: Ok, or an
\* error of create_dir_all, of the write of the temp file, or of the rename
SaveOutcomes == {"Ok", "CreateDir", "WriteTemp", "Rename"}

\* config_actor as it would be if a failed save put the default config back
\* into memory
AfterSaveRollsBack(memory, file, cfg, outcome) ==
    [memory |-> IF outcome = "Ok" THEN memory ELSE AppConfigDefault,
     file |-> IF outcome = "Ok" THEN Some(ToJson(cfg)) ELSE file]

\* config_state.rs:157-161, match new_config.save(&config_dir): both arms
\* log; config.json holds the new text after Ok and is as it was after an
\* error; memory is not written
AfterSave(memory, file, cfg, outcome) ==
    [memory |-> memory,
     file |-> IF outcome = "Ok" THEN Some(ToJson(cfg)) ELSE file]

\* config_actor, config_state.rs:157-161: the save, then the loop goes on
ConfigSave ==
    /\ config_saving # None
    /\ \E outcome \in SaveOutcomes :
         LET after == AfterSave(app_config, config_file, config_saving.some, outcome) IN
         /\ app_config' = after.memory
         /\ config_file' = after.file
    /\ config_saving' = None
    /\ Quiet
    /\ UNCHANGED <<config_tx, config_init, bindingVars, apiVars, connVars, effects,
                   historyVars, unitVars>>

\* the configs a caller of ConfigState::update passes: one for each check of
\* validate() that fails (on either side of each range), and three that pass
ApiConfigs ==
    {AppConfig(0, 14, None),
     AppConfig(ConfigVersion + 1, 14, None),
     AppConfig(ConfigVersion, MinFontPoints - 1, None),
     AppConfig(ConfigVersion, MaxFontPoints + 1, None),
     AppConfig(ConfigVersion, 14, Some(<<>>)),
     AppConfig(ConfigVersion, 14, Some(<<"localhost", ":", "4096">>)),
     AppConfig(ConfigVersion, MinFontPoints, None),
     AppConfig(ConfigVersion, 20, None),
     AppConfig(ConfigVersion, MaxFontPoints, Some(<<"http", "://", "localhost">>))}

\* ConfigState::update(ConfigCommand::UpdateAppConfig(cfg))
ApiConfigUpdate(cfg) ==
    /\ Len(config_accepted) < MaxConfigCmds
    /\ ConfigUpdateEffect(UpdateAppConfig(cfg))
    /\ Quiet
    /\ UNCHANGED <<app_config, config_file, config_saving, bindingVars, apiVars, connVars,
                   effects, accepted, applied, unitVars>>

\* handle_get_config, given what get_app_config() returned
handle_get_config(cfg) ==
    Replied([kind |-> "GetConfigResponse", app_config_json |-> ToJson(cfg),
             models_config_json |-> <<"json", "models">>],
            None, None, {}, {}, {})

\* handle_update_config as it would be if it sent the command without
\* deserializing the text
handle_update_config_unparsed(config_json) ==
    Replied([kind |-> "UpdateConfigResponse", success |-> TRUE, error |-> None],
            None, UpdateAppConfig(AppConfigDefault), {}, {}, {})

\* handle_update_config
handle_update_config(config_json) ==
    LET parsed == FromJson(config_json) IN
    IF ~parsed.ok
    THEN Replied([kind |-> "UpdateConfigResponse", success |-> FALSE,
                  error |-> <<"Invalid config JSON:", "[serde error]">>],
                 None, None, {}, {}, {})
    ELSE Replied([kind |-> "UpdateConfigResponse", success |-> TRUE, error |-> None],
                 None, UpdateAppConfig(parsed.value), {}, {}, {})

HandleGetConfig(c) ==
    /\ Handling(c, {"GetConfig"})
    /\ Finish(c, handle_get_config(app_config))
    /\ UNCHANGED <<configVars, config_accepted>>

HandleUpdateConfig(c) ==
    /\ Handling(c, {"UpdateConfig"})
    /\ LET r == handle_update_config(cur[c].payload.config_json) IN
       /\ Finish(c, r)
       /\ IF r.config_cmd # None THEN ConfigUpdateEffect(r.config_cmd)
          ELSE UNCHANGED <<config_tx, config_init, config_accepted>>
    /\ UNCHANGED <<app_config, config_file, config_saving>>

\* -------------------------------------------------------------- stop_pid
\* pids of the processes of the machine when the model starts: init and the
\* backends
RunningPids == {1} \cup {PidOf(b) : b \in Backends}

\* a pid that no process has (the integration test passes u32::MAX)
NoSuchPid == 2147483647

\* pids a caller passes to stop_pid
StopPids == RunningPids \cup {NoSuchPid}

\* with_process(pid, f): a fresh snapshot of the process table, and f applied
\* to the entry of pid if there is one
WithProcessFinds(pid) == pid \in processes

\* process.rs:215-222 as it would be if a missing process counted as killed
NotFoundUnchecked == [pc |-> "verify", ret |-> None]

\* process.rs:215-222: the process was not found, killed is false and the
\* function returns false
NotFound == [pc |-> "done", ret |-> FALSE]

\* stop_pid, process.rs:204-205: the call, up to the lookup of the process
StopPid(pid) ==
    /\ stop_pc = "idle"
    /\ stop_arg' = pid
    /\ LET o == IF WithProcessFinds(pid) THEN [pc |-> "signal", ret |-> None]
                 ELSE NotFound
       IN  stop_pc' = o.pc /\ stop_ret' = o.ret
    /\ UNCHANGED <<processes, signals, backoffs, brokerVars, builderVars, codecVars, libVars>>

\* stop_pid, process.rs:206-222: the closure on the process found. Where the
\* platform knows Signal::Term, kill_with returns Some(sent); where it does
\* not, None, and kill() sends the kill signal. The signal is sent when the
\* process still exists and the caller may signal it.
StopSignal ==
    /\ stop_pc = "signal"
    /\ \E term_supported \in BOOLEAN, permitted \in BOOLEAN :
         LET sent == permitted /\ stop_arg \in processes IN
         /\ signals' = signals \cup
                {[pid |-> stop_arg,
                  signal |-> IF term_supported THEN "Term" ELSE "Kill",
                  sent |-> sent]}
         /\ IF sent
            THEN stop_pc' = "verify" /\ stop_ret' = stop_ret
            ELSE stop_pc' = "done" /\ stop_ret' = FALSE
    /\ UNCHANGED <<stop_arg, processes, backoffs, brokerVars, builderVars, codecVars, libVars>>

\* the verification loop as it would be if it force-killed the process when
\* the backoff has run out of time
StopVerifyKillsAgain ==
    /\ stop_pc = "verify"
    /\ IF ~WithProcessFinds(stop_arg)
       THEN stop_pc' = "done" /\ stop_ret' = TRUE /\ UNCHANGED <<backoffs, signals>>
       ELSE \E next_backoff \in {"Some", "None"} :
              IF next_backoff = "Some"
              THEN /\ backoffs < MaxBackoffs
                   /\ backoffs' = backoffs + 1
                   /\ UNCHANGED <<stop_pc, stop_ret, signals>>
              ELSE /\ stop_pc' = "done" /\ stop_ret' = FALSE /\ backoffs' = backoffs
                   /\ signals' = signals \cup
                        {[pid |-> stop_arg, signal |-> "Kill", sent |-> TRUE]}
    /\ UNCHANGED <<stop_arg, processes, brokerVars, builderVars, codecVars, libVars>>

\* stop_pid, process.rs:230-246: one turn of the verification loop. The
\* process is gone: true. It is still there: sleep for the next backoff
\* delay, or false when the backoff has run out of time.
StopVerify ==
    /\ stop_pc = "verify"
    /\ IF ~WithProcessFinds(stop_arg)
       THEN stop_pc' = "done" /\ stop_ret' = TRUE /\ backoffs' = backoffs
       ELSE \E next_backoff \in {"Some", "None"} :
              IF next_backoff = "Some"
              THEN /\ backoffs < MaxBackoffs
                   /\ backoffs' = backoffs + 1
                   /\ UNCHANGED <<stop_pc, stop_ret>>
              ELSE stop_pc' = "done" /\ stop_ret' = FALSE /\ backoffs' = backoffs
    /\ UNCHANGED <<stop_arg, processes, signals, brokerVars, builderVars, codecVars, libVars>>

\* a process of the machine exits, signalled or not
ProcessExits(p) ==
    /\ p \in processes
    /\ processes' = processes \ {p}
    /\ UNCHANGED <<stop_pc, stop_arg, stop_ret, signals, backoffs,
                   brokerVars, builderVars, codecVars, libVars>>

\* ------------------------------------------------------ ServerInfoBuilder
\* ServerInfoBuilder::default
ServerInfoBuilderDefault ==
    [pid |-> None, port |-> None, base_url |-> None, name |-> None,
     command |-> None, owned |-> None]

\* values the callers of the setters pass: pid (u32), port (u16), base URL,
\* name, command, owned
BuilderPids == {0, 1234}
BuilderPorts == {0, 3000, 65535}
BuilderBaseUrls ==
    {<<>>, <<"ftp", "://", "example.com">>, <<"127.0.0.1", ":", 3000>>,
     FormatBaseUrl(3000), <<"https", "://", "example.com">>}
BuilderNames == {"", OPENCODE_BINARY}
BuilderCommands == {"", "opencode serve"}

\* ModelError::Validation { message, location }
ValidationError(message) ==
    [ok |-> FALSE, error |-> [kind |-> "Validation", message |-> message]]

\* u32::from(u16) of `port.into()`: the sixteen bits, zero-extended
U32FromU16(port) == port % 65536

\* builder.rs:54-64 as it would be without the check for zero
CheckPidPresent(b) ==
    IF b.pid = None THEN ValidationError(<<"PID is required">>) ELSE None

\* builder.rs:54-64: the checks of build(), each None when it passes and
\* the error it returns otherwise
CheckPid(b) ==
    IF b.pid = None THEN ValidationError(<<"PID is required">>)
    ELSE IF b.pid.some = 0 THEN ValidationError(<<"PID must be non-zero">>)
    ELSE None

\* builder.rs:66-69
CheckPort(b) ==
    IF b.port = None THEN ValidationError(<<"Port is required">>) ELSE None

\* builder.rs:71-88
CheckBaseUrl(b) ==
    IF b.base_url = None THEN ValidationError(<<"Base URL is required">>)
    ELSE IF b.base_url.some = <<>>
         THEN ValidationError(<<"Base URL cannot be empty">>)
    ELSE IF ~HasHttpPrefix(b.base_url.some)
         THEN ValidationError(<<"Invalid base URL format:">> \o b.base_url.some)
    ELSE None

\* builder.rs:90-100
CheckName(b) ==
    IF b.name = None THEN ValidationError(<<"Server name is required">>)
    ELSE IF b.name.some = "" THEN ValidationError(<<"Server name cannot be empty">>)
    ELSE None

\* builder.rs:102-112
CheckCommand(b) ==
    IF b.command = None THEN ValidationError(<<"Command is required">>)
    ELSE IF b.command.some = "" THEN ValidationError(<<"Command cannot be empty">>)
    ELSE None

\* builder.rs:114-117
CheckOwned(b) ==
    IF b.owned = None THEN ValidationError(<<"Owned is required">>) ELSE None

\* ServerInfoBuilder::build: the checks in the order of the code, each
\* returning at once when it fails, then the ServerInfo
Build(b) ==
    IF CheckPid(b) # None THEN CheckPid(b)
    ELSE IF CheckPort(b) # None THEN CheckPort(b)
    ELSE IF CheckBaseUrl(b) # None THEN CheckBaseUrl(b)
    ELSE IF CheckName(b) # None THEN CheckName(b)
    ELSE IF CheckCommand(b) # None THEN CheckCommand(b)
    ELSE IF CheckOwned(b) # None THEN CheckOwned(b)
    ELSE [ok |-> TRUE,
          value |-> [pid |-> b.pid.some, port |-> U32FromU16(b.port.some),
                     base_url |-> b.base_url.some, name |-> b.name.some,
                     command |-> b.command.some, owned |-> b.owned.some]]

\* the setters: each stores Some(value) in its field
WithField(field, value) ==
    /\ built = None
    /\ builder' = [builder EXCEPT ![field] = Some(value)]
    /\ UNCHANGED <<built, brokerVars, stopVars, codecVars, libVars>>

with_pid == \E pid \in BuilderPids : WithField("pid", pid)
with_port == \E port \in BuilderPorts : WithField("port", port)
with_base_url == \E url \in BuilderBaseUrls : WithField("base_url", url)
with_name == \E name \in BuilderNames : WithField("name", name)
with_command == \E cmd \in BuilderCommands : WithField("command", cmd)
with_owned == \E owned \in BOOLEAN : WithField("owned", owned)

\* build(self): the builder is consumed
BuildCall ==
    /\ built = None
    /\ built' = Build(builder)
    /\ UNCHANGED <<builder, brokerVars, stopVars, codecVars, libVars>>

\* ------------------------------------------------------- field normalizer
\* field names that occur as keys of the mapping file and of JSON objects, in
\* the byte order of the strings
FieldNames == {"sessionID", "session_id", "title"}
FieldRank == ("sessionID" :> 1) @@ ("session_id" :> 2) @@ ("title" :> 3)

\* contents of the [mappings] table the build may find: any table of at most
\* MaxMappings entries, JavaScript name = snake_case name
MappingTables ==
    UNION {[D -> FieldNames] : D \in {E \in SUBSET FieldNames : Cardinality(E) <= MaxMappings}}

\* the values of a table
Values(m) == {m[k] : k \in DOMAIN m}

\* validate_mappings as it would be without its checks
validate_mappings_unchecked(m) == TRUE

\* validate_mappings: TRUE when it returns, FALSE when it panics. The keys
\* of a HashMap are distinct; two equal values are a panic, and so is a
\* reversed table with fewer entries than the table.
validate_mappings(m) ==
    /\ ~\E j, k \in DOMAIN m : j # k /\ m[j] = m[k]
    /\ Cardinality(Values(m)) = Cardinality(DOMAIN m)

\* the TO_JS tables generate_rust_code can emit: the pairs of the table
\* reversed and inserted one by one, so that of two entries with the same
\* snake_case name one survives
ReversedTables(m) == {r \in [Values(m) -> DOMAIN m] : \A v \in Values(m) : m[r[v]] = v}

\* main of build.rs reads opencode_fields.toml
ReadFieldConfig(m) ==
    /\ codec_pc = "config"
    /\ mappings' = m
    /\ codec_pc' = "validate"
    /\ UNCHANGED <<TO_SNAKE, TO_JS, key_call, json_call, brokerVars, stopVars, builderVars, libVars>>

\* generate_field_normalizer: validate_mappings, then generate_rust_code
\* writes the two tables into field_normalizer.rs
GenerateFieldNormalizer ==
    /\ codec_pc = "validate"
    /\ IF validate_mappings(mappings)
       THEN /\ TO_SNAKE' = mappings
            /\ TO_JS' \in ReversedTables(mappings)
            /\ codec_pc' = "ready"
       ELSE /\ codec_pc' = "panicked"
            /\ UNCHANGED <<TO_SNAKE, TO_JS>>
    /\ UNCHANGED <<mappings, key_call, json_call, brokerVars, stopVars, builderVars, libVars>>

\* denormalize_key as it would be if it returned its argument
denormalize_key_unmapped(key) == key

\* normalize_key: TO_SNAKE.get(key), or the key itself
normalize_key(key) == IF key \in DOMAIN TO_SNAKE THEN TO_SNAKE[key] ELSE key

\* denormalize_key: TO_JS.get(key), or the key itself
denormalize_key(key) == IF key \in DOMAIN TO_JS THEN TO_JS[key] ELSE key

\* serde_json::Value: primitives, arrays and objects (a map from keys to
\* values)
JsonPrimitives == {[t |-> "primitive", v |-> "p"], [t |-> "primitive", v |-> "q"]}
JsonArray(items) == [t |-> "array", items |-> items]
JsonObject(map) == [t |-> "object", map |-> map]

\* number of nodes of a JSON value
RECURSIVE JsonSize(_)
JsonSize(value) ==
    IF value.t = "object"
    THEN 1 + Sum([k \in DOMAIN value.map |-> JsonSize(value.map[k])], DOMAIN value.map)
    ELSE IF value.t = "array"
    THEN 1 + Sum([i \in DOMAIN value.items |-> JsonSize(value.items[i])],
                 DOMAIN value.items)
    ELSE 1

\* the JSON values of at most n nodes: primitives, arrays of at most one
\* item, and objects with keys among the field names
RECURSIVE JsonUpTo(_)
JsonUpTo(n) ==
    IF n <= 0 THEN {}
    ELSE JsonPrimitives
           \cup {JsonArray(<<>>), JsonObject(<<>>)}
           \cup {JsonArray(<<x>>) : x \in JsonUpTo(n - 1)}
           \cup {v \in {JsonObject(f) :
                          f \in UNION {[S -> JsonUpTo(n - Cardinality(S))] :
                                          S \in SUBSET FieldNames \ {{}}}} :
                    JsonSize(v) <= n}

JsonValues == JsonUpTo(MaxJsonNodes)

\* map.into_iter().map(|(k, v)| (f(k), g(v))).collect() on a serde_json
\* Map: the entries are visited in key order and inserted into a new map, so
\* of two keys renamed to the same key the later one leaves its value
RenameKeys(map, keys, values) ==
    LET renamed == {keys[k] : k \in DOMAIN map}
        last(n) == CHOOSE k \in DOMAIN map :
                       /\ keys[k] = n
                       /\ \A j \in DOMAIN map :
                             keys[j] = n => FieldRank[j] <= FieldRank[k]
    IN  [n \in renamed |-> values[last(n)]]

\* normalize_json
RECURSIVE normalize_json(_)
normalize_json(value) ==
    IF value.t = "object"
    THEN JsonObject(RenameKeys(value.map,
                               [k \in DOMAIN value.map |-> normalize_key(k)],
                               [k \in DOMAIN value.map |-> normalize_json(value.map[k])]))
    ELSE IF value.t = "array"
    THEN JsonArray([i \in DOMAIN value.items |-> normalize_json(value.items[i])])
    ELSE value

\* denormalize_json
RECURSIVE denormalize_json(_)
denormalize_json(value) ==
    IF value.t = "object"
    THEN JsonObject(RenameKeys(value.map,
                               [k \in DOMAIN value.map |-> denormalize_key(k)],
                               [k \in DOMAIN value.map |-> denormalize_json(value.map[k])]))
    ELSE IF value.t = "array"
    THEN JsonArray([i \in DOMAIN value.items |-> denormalize_json(value.items[i])])
    ELSE value

\* the arguments of the next call: any argument for a first call, what the
\* first call returned for a second one (a round trip); no third call
NextArgs(call, args) ==
    IF call = None THEN args
    ELSE IF Len(call.fns) < 2 THEN {call.rets[Len(call.rets)]}
    ELSE {}

\* the record of the calls after fn(arg) returned ret
Called(call, fn, arg, ret) ==
    IF call = None
    THEN [orig |-> arg, fns |-> <<fn>>, rets |-> <<ret>>]
    ELSE [call EXCEPT !.fns = Append(@, fn), !.rets = Append(@, ret)]

KeyCall(fn, key, ret) ==
    /\ codec_pc = "ready"
    /\ json_call = None
    /\ key_call' = Called(key_call, fn, key, ret)
    /\ UNCHANGED <<mappings, codec_pc, TO_SNAKE, TO_JS, json_call,
                   brokerVars, stopVars, builderVars, libVars>>

JsonCall(fn, value, ret) ==
    /\ codec_pc = "ready"
    /\ key_call = None
    /\ json_call' = Called(json_call, fn, value, ret)
    /\ UNCHANGED <<mappings, codec_pc, TO_SNAKE, TO_JS, key_call,
                   brokerVars, stopVars, builderVars, libVars>>

NormalizeKeyCall ==
    \E key \in NextArgs(key_call, FieldNames) :
        KeyCall("normalize_key", key, normalize_key(key))

DenormalizeKeyCall ==
    \E key \in NextArgs(key_call, FieldNames) :
        KeyCall("denormalize_key", key, denormalize_key(key))

NormalizeJsonCall ==
    \E value \in NextArgs(json_call, JsonValues) :
        JsonCall("normalize_json", value, normalize_json(value))

DenormalizeJsonCall ==
    \E value \in NextArgs(json_call, JsonValues) :
        JsonCall("denormalize_json", value, denormalize_json(value))

\* ------------------------------------------------- AppConfig::save / load
exceptSave == <<brokerVars, stopVars, builderVars, codecVars, retryVars, redactedVars, probeVars, healthVars, taskVars>>

\* config_dir.join(CONFIG_FILE_NAME)
config_path == "config.json"

\* the temp path as it would be if save wrote to config.json itself
temp_path_direct == config_path

\* config_dir.join(format!("{}.tmp", CONFIG_FILE_NAME))
temp_path == "config.json.tmp"

\* a file that std::fs::write has created or truncated and not yet filled:
\* a proper prefix of the text, which is no JSON
Torn(text) == <<"prefix of", text>>

ConfigError(kind) == [ok |-> FALSE, error |-> kind]

\* save(): validate, then the paths are computed
Save(cfg) ==
    /\ save_pc = "idle"
    /\ nsaves < MaxSaves
    /\ nsaves' = nsaves + 1
    /\ save_cfg' = cfg
    /\ save_prev' = files[config_path]
    /\ IF Validate(cfg)
       THEN save_pc' = "create_dir" /\ save_ret' = None
       ELSE save_pc' = "idle" /\ save_ret' = ConfigError("ValidationError")
    /\ UNCHANGED <<files, loaded, exceptSave>>

\* std::fs::create_dir_all(config_dir)?, then serde_json::to_string_pretty
SaveCreateDir ==
    /\ save_pc = "create_dir"
    /\ \E created \in BOOLEAN :
         IF created
         THEN save_pc' = "create" /\ save_ret' = None
         ELSE save_pc' = "idle" /\ save_ret' = ConfigError("WriteError")
    /\ UNCHANGED <<files, save_cfg, save_prev, nsaves, loaded, exceptSave>>

\* std::fs::write(&temp_path, json), first half: the file is created or
\* truncated
SaveCreateTemp ==
    /\ save_pc = "create"
    /\ \E created \in BOOLEAN :
         IF created
         THEN /\ files' = [files EXCEPT ![temp_path] = Some(Torn(ToJson(save_cfg)))]
              /\ save_pc' = "write" /\ save_ret' = None
         ELSE /\ save_pc' = "idle" /\ save_ret' = ConfigError("WriteError")
              /\ UNCHANGED files
    /\ UNCHANGED <<save_cfg, save_prev, nsaves, loaded, exceptSave>>

\* std::fs::write(&temp_path, json), second half: the text is written; a
\* failed write leaves what was written so far
SaveWriteTemp ==
    /\ save_pc = "write"
    /\ \E written \in BOOLEAN :
         IF written
         THEN /\ files' = [files EXCEPT ![temp_path] = Some(ToJson(save_cfg))]
              /\ save_pc' = "rename" /\ save_ret' = None
         ELSE /\ save_pc' = "idle" /\ save_ret' = ConfigError("WriteError")
              /\ UNCHANGED files
    /\ UNCHANGED <<save_cfg, save_prev, nsaves, loaded, exceptSave>>

\* std::fs::rename(&temp_path, &config_path): the name config.json is
\* switched to the temp file in one step, or not at all
SaveRename ==
    /\ save_pc = "rename"
    /\ \E renamed \in BOOLEAN :
         IF renamed
         THEN /\ files' = [p \in DOMAIN files |->
                            IF p = config_path THEN files[temp_path]
                            ELSE IF p = temp_path THEN None
                            ELSE files[p]]
              /\ save_ret' = [ok |-> TRUE]
         ELSE /\ save_ret' = ConfigError("WriteError")
              /\ UNCHANGED files
    /\ save_pc' = "idle"
    /\ UNCHANGED <<save_cfg, save_prev, nsaves, loaded, exceptSave>>

Crashed == [crashed |-> TRUE]

\* the process dies inside save: the call never returns, the files stay
SaveCrash ==
    /\ save_pc # "idle"
    /\ save_pc' = "idle"
    /\ save_ret' = Crashed
    /\ UNCHANGED <<files, save_cfg, save_prev, nsaves, loaded, exceptSave>>

\* AppConfig::load, by this process after a save or by the next one after
\* a crash, or by another process while save runs
Load ==
    /\ loaded' =
         IF files[config_path] = None THEN [ok |-> TRUE, value |-> AppConfigDefault]
         ELSE LET parsed == FromJson(files[config_path].some) IN
              IF ~parsed.ok THEN ConfigError("ParseError")
              ELSE IF ~Validate(parsed.value) THEN ConfigError("ValidationError")
              ELSE [ok |-> TRUE, value |-> parsed.value]
    /\ UNCHANGED <<files, save_pc, save_cfg, save_prev, save_ret, nsaves, exceptSave>>

\* ------------------------------------------------------------ retryability
exceptRetry == <<brokerVars, stopVars, builderVars, codecVars, saveVars, redactedVars, probeVars, healthVars, taskVars>>

\* HTTP status codes (u16): the four retryable ones, their neighbours, the
\* ends of the 4xx and 5xx ranges and of u16
StatusCodes == {0, 200, 400, 408, 428, 429, 430, 499, 500, 501, 502, 503, 504, 505, 599, 65535}

\* AuthSyncError, reduced to the fields is_retryable looks at
Network(is_timeout, is_connection) ==
    [variant |-> "Network", is_timeout |-> is_timeout, is_connection |-> is_connection]
ProviderSync(status_code) == [variant |-> "ProviderSync", status_code |-> status_code]
OtherVariants ==
    {"Cancelled", "NoServer", "EnvLoad", "OAuthCheck", "AuthPathDetection",
     "KeyValidation", "GlobalTimeout"}
AuthSyncErrors ==
    {Network(t, c) : t \in BOOLEAN, c \in BOOLEAN}
      \cup {ProviderSync(code) : code \in StatusCodes}
      \cup {[variant |-> v] : v \in OtherVariants}

\* HttpStatusCode::is_retryable as it would be if every 5xx were retryable
status_is_server_error(code) == code \in 500..599 \/ code = 429

\* HttpStatusCode::is_retryable
status_is_retryable(code) == code \in {502, 503, 504, 429}

\* AuthSyncError::is_retryable
is_retryable(err) ==
    IF err.variant = "Network" THEN err.is_timeout \/ err.is_connection
    ELSE IF err.variant = "ProviderSync" THEN status_is_retryable(err.status_code)
    ELSE FALSE

\* a call of one of the two functions
RetryCall(fn, arg, ret) ==
    /\ Len(retry_calls) < MaxRetryCalls
    /\ retry_calls' = Append(retry_calls, [fn |-> fn, arg |-> arg, ret |-> ret])
    /\ UNCHANGED exceptRetry

IsRetryableCall == \E err \in AuthSyncErrors : RetryCall("is_retryable", err, is_retryable(err))

StatusIsRetryableCall ==
    \E code \in StatusCodes :
        RetryCall("HttpStatusCode::is_retryable", code, status_is_retryable(code))

\* ----------------------------------------------------------- RedactedApiKey
exceptRedacted == <<brokerVars, stopVars, builderVars, codecVars, saveVars, retryVars, probeVars, healthVars, taskVars>>

\* API keys: strings of characters, among them the empty one, two of each
\* length and two with the same characters in another order
Secrets ==
    {<<>>, <<"a">>, <<"b">>, <<"a", "b">>, <<"b", "a">>,
     <<"s", "k", "-", "a">>, <<"s", "k", "-", "b">>}

\* RedactedApiKey::new
RedactedApiKey(key) == [inner |-> key]

\* RedactedApiKey::as_str
as_str(k) == k.inner

\* RedactedApiKey::len
len(k) == Len(k.inner)

\* RedactedApiKey::is_empty
is_empty(k) == k.inner = <<>>

\* Debug as #[derive(Debug)] would write it
fmt_debug_derived(k) == <<"RedactedApiKey { inner: ", k.inner, " }">>

\* impl Debug: the text written
fmt_debug(k) == <<"RedactedApiKey([REDACTED])">>

\* impl Display: the text written
fmt_display(k) == <<"[REDACTED API KEY]">>

\* impl Serialize: always the custom error, whatever the serializer
serialize(k) ==
    [ok |-> FALSE,
     error |-> [variant |-> "RedactError::Serialization",
                message |-> "RedactedApiKey cannot be serialized - use as_str() explicitly"]]

\* the result of an operation, tagged so that results of different types can
\* be recorded side by side
Apply(op, k) ==
    CASE op = "as_str" -> [str |-> as_str(k)]
      [] op = "len" -> [usize |-> len(k)]
      [] op = "is_empty" -> [bool |-> is_empty(k)]
      [] op = "Debug" -> [str |-> fmt_debug(k)]
      [] op = "Display" -> [str |-> fmt_display(k)]
      [] op = "Serialize" -> serialize(k)

RedactedOps == {"as_str", "len", "is_empty", "Debug", "Display", "Serialize"}

\* an operation on RedactedApiKey::new(secret)
RedactedCall(op, secret) ==
    /\ Len(redacted_calls) < MaxRedactedCalls
    /\ redacted_calls' =
         Append(redacted_calls,
                [op |-> op, key |-> RedactedApiKey(secret), ret |-> Apply(op, RedactedApiKey(secret))])
    /\ UNCHANGED exceptRedacted

\* ------------------------------------- update() and get_server() in tasks
exceptTask ==
    <<apiVars, connVars, configVars, effects, stopVars, builderVars, codecVars, saveVars,
      retryVars, redactedVars, probeVars, healthVars>>

\* the capacity of the channel while the tasks run
TaskChannelCapacity == IF MaxQueued < ChannelCapacity THEN MaxQueued ELSE ChannelCapacity

\* the calls a task makes
TaskOps ==
    {[fn |-> "update", cmd |-> SetServer(ServerInfo(b, TRUE))] : b \in Backends}
      \cup {[fn |-> "update", cmd |-> ClearServer], [fn |-> "get_server"]}

\* a mutex as it would be if lock() did not wait for the holder
CanLockAlways(guard) == TRUE

\* tokio::sync::Mutex::lock().await returns when no task holds the mutex
CanLock(guard) == guard = None

\* a task calls update(cmd) or get_server() on its clone of the handle
TaskCall(t, op) ==
    /\ task_pc[t] = "idle"
    /\ ntask_calls[t] < MaxTaskCalls
    /\ ntask_calls' = [ntask_calls EXCEPT ![t] = @ + 1]
    /\ task_op' = [task_op EXCEPT ![t] = op]
    /\ task_ret' = [task_ret EXCEPT ![t] = None]
    /\ task_pc' = [task_pc EXCEPT ![t] = IF op.fn = "update" THEN "init_lock" ELSE "read"]
    /\ Quiet
    /\ UNCHANGED <<init_guard, tx_guard, tx_slot, channels, consumers, bindingVars,
                   historyVars, exceptTask>>

\* ensure_actor, state.rs:127-133: actor_init.lock().await and the test of the
\* flag. When the flag is set the guard drops at once; when it is not, the
\* channel is made and the task goes on to lock command_tx with the guard held
EnsureActorLock(t) ==
    /\ task_pc[t] = "init_lock"
    /\ CanLock(init_guard)
    /\ IF actor_init[ApiInstance]
       THEN /\ task_pc' = [task_pc EXCEPT ![t] = "tx_lock"]
            /\ UNCHANGED <<init_guard, channels>>
       ELSE /\ task_pc' = [task_pc EXCEPT ![t] = "store_tx"]
            /\ init_guard' = Some(t)
            /\ channels' = channels + 1
    /\ Quiet
    /\ UNCHANGED <<task_op, task_ret, ntask_calls, tx_guard, tx_slot, consumers,
                   bindingVars, historyVars, exceptTask>>

\* ensure_actor as it would be if the guard of command_tx were kept for good
TxGuardKept(t) == Some(t)

\* state.rs:139, drop(tx_guard): the mutex of command_tx is free again
TxGuardAfterStore(t) == None

\* ensure_actor, state.rs:137-144: command_tx.lock().await, the sender is
\* stored and the guard dropped, the actor is spawned, the flag is set, and
\* the init guard drops at the end of the function
EnsureActorStore(t) ==
    /\ task_pc[t] = "store_tx"
    /\ CanLock(tx_guard)
    /\ tx_slot' = TRUE
    /\ consumers' = consumers + 1
    /\ actor_init' = [actor_init EXCEPT ![ApiInstance] = TRUE]
    /\ tx_guard' = TxGuardAfterStore(t)
    /\ init_guard' = None
    /\ task_pc' = [task_pc EXCEPT ![t] = "tx_lock"]
    /\ Quiet
    /\ UNCHANGED <<task_op, task_ret, ntask_calls, channels, server,
                   opencode_client, command_tx, actor, historyVars, exceptTask>>

\* update, state.rs:95-99: command_tx.lock().await and the test of the slot;
\* an empty slot is the error "State actor not initialized"
UpdateLock(t) ==
    /\ task_pc[t] = "tx_lock"
    /\ CanLock(tx_guard)
    /\ IF tx_slot
       THEN /\ tx_guard' = Some(t)
            /\ task_pc' = [task_pc EXCEPT ![t] = "send"]
            /\ task_ret' = task_ret
       ELSE /\ tx_guard' = tx_guard
            /\ task_pc' = [task_pc EXCEPT ![t] = "idle"]
            /\ task_ret' = [task_ret EXCEPT ![t] =
                              [fn |-> "update", ok |-> FALSE,
                               error |-> <<"State actor not initialized">>]]
    /\ Quiet
    /\ UNCHANGED <<task_op, ntask_calls, init_guard, tx_slot, channels, consumers,
                   bindingVars, historyVars, exceptTask>>

\* update, state.rs:101-104: tx.send(cmd).await with the guard of command_tx
\* held; the send waits while the channel is full; then the guard drops
UpdateSend(t) ==
    /\ task_pc[t] = "send"
    /\ Len(command_tx[ApiInstance]) < TaskChannelCapacity
    /\ command_tx' = [command_tx EXCEPT ![ApiInstance] = Append(@, task_op[t].cmd)]
    /\ accepted' = [accepted EXCEPT ![ApiInstance] = Append(@, task_op[t].cmd)]
    /\ tx_guard' = None
    /\ task_ret' = [task_ret EXCEPT ![t] = [fn |-> "update", ok |-> TRUE]]
    /\ task_pc' = [task_pc EXCEPT ![t] = "idle"]
    /\ Quiet
    /\ UNCHANGED <<task_op, ntask_calls, init_guard, tx_slot, channels, consumers,
                   server, opencode_client, actor_init, actor, applied, config_accepted,
                   exceptTask>>

\* get_server, state.rs:115-117: server.read().await.clone(); the read lock
\* is given when the actor does not hold the write lock, and dropped at once
TaskGetServer(t) ==
    /\ task_pc[t] = "read"
    /\ ~ServerWriteLocked(ApiInstance)
    /\ task_ret' = [task_ret EXCEPT ![t] =
                      [fn |-> "get_server", value |-> server[ApiInstance]]]
    /\ task_pc' = [task_pc EXCEPT ![t] = "idle"]
    /\ Quiet
    /\ UNCHANGED <<task_op, ntask_calls, init_guard, tx_guard, tx_slot, channels,
                   consumers, bindingVars, historyVars, exceptTask>>

\* the steps of a task inside a call
TaskStep(t) ==
    \/ EnsureActorLock(t)
    \/ EnsureActorStore(t)
    \/ UpdateLock(t)
    \/ UpdateSend(t)
    \/ TaskGetServer(t)

\* ------------------ the desktop commands on the shared AppState (one task
\* per command, on the handle of ApiInstance)
exceptCommands ==
    <<apiVars, connVars, configVars, effects, builderVars, codecVars, saveVars, retryVars,
      redactedVars, probeVars, healthVars, init_guard, tx_guard, tx_slot, channels,
      consumers, stop_pc, stop_arg, stop_ret, signals, backoffs, server, opencode_client,
      actor, applied, config_accepted>>

\* a command returns to its caller
CommandReturns(t, ret) ==
    /\ task_pc' = [task_pc EXCEPT ![t] = "idle"]
    /\ task_ret' = [task_ret EXCEPT ![t] = ret]

\* a command goes on to its next await
CommandGoes(t, next_pc) ==
    /\ task_pc' = [task_pc EXCEPT ![t] = next_pc]
    /\ task_ret' = [task_ret EXCEPT ![t] = None]

\* stop_server, commands/server.rs:156-165: state.get_server().await, and
\* the NoServer error when the cell is empty
CmdStopServer(t) ==
    /\ task_pc[t] = "idle"
    /\ ntask_calls[t] < MaxTaskCalls
    /\ ~ServerWriteLocked(ApiInstance)
    /\ ntask_calls' = [ntask_calls EXCEPT ![t] = @ + 1]
    /\ task_op' = [task_op EXCEPT ![t] =
                     [fn |-> "stop_server", server_info |-> server[ApiInstance]]]
    /\ IF server[ApiInstance] = None
       THEN CommandReturns(t, [fn |-> "stop_server", ok |-> FALSE, error |-> "NoServer"])
       ELSE CommandGoes(t, "stop_pid")
    /\ Quiet
    /\ UNCHANGED <<processes, actor_init, command_tx, accepted, exceptCommands>>

\* stop_server, commands/server.rs:167-178: process::stop_pid(pid) on the pid
\* read, and the StopFailed error when it returns false
CmdStopPid(t) ==
    /\ task_pc[t] = "stop_pid"
    /\ \E stopped \in BOOLEAN :
         IF stopped
         THEN /\ processes' = processes \ {task_op[t].server_info.pid}
              /\ CommandGoes(t, "clear")
         ELSE /\ processes' = processes
              /\ CommandReturns(t, [fn |-> "stop_server", ok |-> FALSE,
                                    error |-> "StopFailed"])
    /\ Quiet
    /\ UNCHANGED <<task_op, ntask_calls, actor_init, command_tx, accepted, exceptCommands>>

\* stop_server, commands/server.rs:182-192: state.update(ClearServer).await
CmdClearServer(t) ==
    /\ task_pc[t] = "clear"
    /\ UpdateEffect(ApiInstance, ClearServer)
    /\ CommandReturns(t, [fn |-> "stop_server", ok |-> TRUE])
    /\ Quiet
    /\ UNCHANGED <<task_op, ntask_calls, processes, exceptCommands>>

\* discover_server, commands/server.rs:25-36: process::discover() finds a
\* server that runs, or none
CmdDiscoverServer(t) ==
    /\ task_pc[t] = "idle"
    /\ ntask_calls[t] < MaxTaskCalls
    /\ ntask_calls' = [ntask_calls EXCEPT ![t] = @ + 1]
    /\ \E found \in {None} \cup {ServerInfo(b, TRUE) : b \in {x \in Backends : PidOf(x) \in processes}} :
         /\ task_op' = [task_op EXCEPT ![t] = [fn |-> "discover_server", server_info |-> found]]
         /\ IF found = None
            THEN CommandReturns(t, [fn |-> "discover_server", ok |-> TRUE, server |-> None])
            ELSE CommandGoes(t, "set")
    /\ Quiet
    /\ UNCHANGED <<processes, actor_init, command_tx, accepted, exceptCommands>>

\* spawn_server, commands/server.rs:75-85: spawn::spawn_and_wait() starts a
\* server that did not run, or fails
CmdSpawnServer(t) ==
    /\ task_pc[t] = "idle"
    /\ ntask_calls[t] < MaxTaskCalls
    /\ ntask_calls' = [ntask_calls EXCEPT ![t] = @ + 1]
    /\ \E r \in SpawnOutcomes :
         /\ task_op' = [task_op EXCEPT ![t] =
                          [fn |-> "spawn_server",
                           server_info |-> IF r.ok THEN r.server ELSE None]]
         /\ IF r.ok
            THEN /\ r.server.pid \notin processes
                 /\ processes' = processes \cup {r.server.pid}
                 /\ CommandGoes(t, "set")
            ELSE /\ processes' = processes
                 /\ CommandReturns(t, [fn |-> "spawn_server", ok |-> FALSE, error |-> "Core"])
    /\ Quiet
    /\ UNCHANGED <<actor_init, command_tx, accepted, exceptCommands>>

\* discover_server, commands/server.rs:44-53, and spawn_server,
\* commands/server.rs:92-101: state.update(SetServer(server_info)).await
CmdSetServer(t) ==
    /\ task_pc[t] = "set"
    /\ UpdateEffect(ApiInstance, SetServer(task_op[t].server_info))
    /\ CommandReturns(t, [fn |-> task_op[t].fn, ok |-> TRUE,
                          server |-> task_op[t].server_info])
    /\ Quiet
    /\ UNCHANGED <<task_op, ntask_calls, processes, exceptCommands>>

\* ---------------------------------------------------------- spawn_and_wait
exceptHealth ==
    <<brokerVars, stopVars, builderVars, codecVars, saveVars, retryVars, redactedVars,
      probeVars, taskVars>>

\* the durations of the source, in milliseconds
HEALTH_CHECK_MAX_ELAPSED == 20000
CHECK_HEALTH_DURATION == 3000

\* ExponentialBackoff { max_elapsed_time: Some(HEALTH_CHECK_MAX_ELAPSED),
\* ..Default::default() }: the defaults of the backoff crate are an initial
\* interval of 500 ms, a multiplier of 1.5, a randomization factor of 0.5 and
\* a largest interval of 60 s; the clock starts when the value is made
INITIAL_INTERVAL == 500
MAX_INTERVAL == 60000

\* a duration in ticks
Ticks(ms) == ms \div Tick

\* get_random_value_from_interval: a value between interval - interval/2 and
\* interval + interval/2; the two ends and the middle are drawn
RandomizedIntervals(interval) ==
    {interval - interval \div 2, interval, interval + interval \div 2}

\* increment_current_interval: times 1.5, capped at the largest interval
increment_current_interval(interval) ==
    IF 3 * interval >= 2 * Ticks(MAX_INTERVAL) THEN Ticks(MAX_INTERVAL)
    ELSE (3 * interval) \div 2

\* ExponentialBackoff::next_backoff with the clock at `now` and the randomized
\* interval drawn: None once the budget is used up or the wait would end
\* after it, else the wait
next_backoff(now, randomized_interval) ==
    IF now > Ticks(HEALTH_CHECK_MAX_ELAPSED) THEN None
    ELSE IF now + randomized_interval <= Ticks(HEALTH_CHECK_MAX_ELAPSED)
         THEN Some(randomized_interval)
         ELSE None

\* how long a probe takes: it answers or fails at once, or the request's
\* timeout ends it
ProbeTimes == {0, Ticks(CHECK_HEALTH_DURATION)}

SpawnError(kind) == [ok |-> FALSE, err |-> kind]

\* spawn_and_wait as it would be if it propagated the error of
\* wait_for_health with `?`
HealthErrPropagated(e) == [then |-> "return_err", err |-> e]

\* spawn.rs:74-81, `if let Err(e) = wait_for_health(..)`: kill the child,
\* then return the error
HealthErr(e) == [then |-> "kill", err |-> e]

\* spawn_and_wait is called
SpawnAndWait ==
    /\ spawn_pc = "idle"
    /\ nspawns < MaxSpawns
    /\ nspawns' = nspawns + 1
    /\ spawn_pc' = "spawn"
    /\ child' = None
    /\ kill_sent' = FALSE
    /\ elapsed' = 0
    /\ current_interval' = 0
    /\ last_probe' = None
    /\ last_backoff' = None
    /\ health_err' = None
    /\ spawn_ret' = None
    /\ UNCHANGED exceptHealth

\* spawn_server_process(..).await?: the child runs, or no binary could be
\* started
SpawnServerProcess ==
    /\ spawn_pc = "spawn"
    /\ \E started \in BOOLEAN :
         IF started
         THEN /\ child' = "running"
              /\ spawn_pc' = "parse"
              /\ spawn_ret' = spawn_ret
         ELSE /\ child' = child
              /\ spawn_pc' = "idle"
              /\ spawn_ret' = SpawnError("Spawn")
    /\ UNCHANGED <<kill_sent, elapsed, current_interval, last_probe, last_backoff,
                   health_err, nspawns, exceptHealth>>

\* parse_server_url(child).await?: the URL was read from the child's output,
\* or it was not (the output ended, 100 lines had no URL, a read failed) and
\* the error is returned by `?`, which drops the child without a kill: it
\* runs on, unless it had exited by itself; then wait_for_health makes its
\* backoff
ParseServerUrl ==
    /\ spawn_pc = "parse"
    /\ \E parsed \in BOOLEAN :
         IF parsed
         THEN /\ spawn_pc' = "health"
              /\ elapsed' = 0
              /\ current_interval' = Ticks(INITIAL_INTERVAL)
              /\ spawn_ret' = spawn_ret
              /\ child' = child
         ELSE /\ spawn_pc' = "idle"
              /\ spawn_ret' = SpawnError("Parse")
              /\ child' \in {"running", "exited"}
              /\ UNCHANGED <<elapsed, current_interval>>
    /\ UNCHANGED <<kill_sent, last_probe, last_backoff, health_err, nspawns, exceptHealth>>

\* wait_for_health, the head of the loop: check_health(base_url).await, and
\* return Ok(()) when it is true
CheckHealth ==
    /\ spawn_pc = "health"
    /\ \E healthy \in BOOLEAN, took \in ProbeTimes :
         /\ last_probe' = Some(healthy)
         /\ elapsed' = elapsed + took
         /\ spawn_pc' = IF healthy THEN "ready" ELSE "backoff"
    /\ UNCHANGED <<child, kill_sent, current_interval, last_backoff, health_err,
                   spawn_ret, nspawns, exceptHealth>>

\* wait_for_health, the rest of the loop: backoff.next_backoff(), then the
\* sleep, or Err(SpawnError::Timeout) to spawn_and_wait
NextBackoff ==
    /\ spawn_pc = "backoff"
    /\ \E randomized_interval \in RandomizedIntervals(current_interval) :
         LET duration == next_backoff(elapsed, randomized_interval) IN
         /\ last_backoff' = [at |-> elapsed, drawn |-> randomized_interval,
                             duration |-> duration]
         /\ current_interval' = IF elapsed > Ticks(HEALTH_CHECK_MAX_ELAPSED)
                                THEN current_interval
                                ELSE increment_current_interval(current_interval)
         /\ IF duration # None
            THEN /\ elapsed' = elapsed + duration.some
                 /\ spawn_pc' = "health"
                 /\ health_err' = health_err
            ELSE /\ elapsed' = elapsed
                 /\ spawn_pc' = HealthErr("Timeout").then
                 /\ health_err' = Some(HealthErr("Timeout").err)
    /\ UNCHANGED <<child, kill_sent, last_probe, spawn_ret, nspawns, exceptHealth>>

\* let _ = child.kill().await: the kill is sent and its result dropped; the
\* child is killed, or had exited already
KillChild ==
    /\ spawn_pc = "kill"
    /\ kill_sent' = TRUE
    /\ child' \in {"killed", "exited"}
    /\ spawn_pc' = "return_err"
    /\ UNCHANGED <<elapsed, current_interval, last_probe, last_backoff, health_err,
                   spawn_ret, nspawns, exceptHealth>>

\* return Err(e)
ReturnErr ==
    /\ spawn_pc = "return_err"
    /\ spawn_ret' = SpawnError(health_err.some)
    /\ spawn_pc' = "idle"
    /\ UNCHANGED <<child, kill_sent, elapsed, current_interval, last_probe,
                   last_backoff, health_err, nspawns, exceptHealth>>

\* the server is healthy: forget(child), build the descriptor, return it
ReturnServerInfo ==
    /\ spawn_pc = "ready"
    /\ child' = "detached"
    /\ \E b \in Backends : spawn_ret' = [ok |-> TRUE, server |-> ServerInfo(b, TRUE)]
    /\ spawn_pc' = "idle"
    /\ UNCHANGED <<kill_sent, elapsed, current_interval, last_probe, last_backoff,
                   health_err, nspawns, exceptHealth>>

\* ------------------------------------------------------- auth-source probe
exceptProbe ==
    <<brokerVars, stopVars, builderVars, codecVars, saveVars, retryVars, redactedVars,
      healthVars, taskVars>>

Providers == {"anthropic", "openai"}

\* a provider's entry in auth.json: one of the three AuthInfo types, or a
\* value that is no AuthInfo
AuthEntries == {"oauth", "api", "wellknown", "malformed"}

\* what the probe can find: no data directory (detect_opencode_paths
\* fails), no file, a file removed between exists() and the read, a file
\* whose read fails with PermissionDenied or with another error, a file that
\* is no JSON object, and a JSON object with entries for some providers
AuthFiles ==
    {[kind |-> k] : k \in {"no_paths", "missing", "removed", "denied", "io_error", "unparsable"}}
      \cup {[kind |-> "json", data |-> f] :
              f \in UNION {[P -> AuthEntries] : P \in SUBSET Providers}}

\* OAuthStatus
Unknown(reason) == [status |-> "Unknown", reason |-> reason]
NotConfigured == [status |-> "NotConfigured"]

\* AuthInfo::to_oauth_status
to_oauth_status(auth_type) ==
    CASE auth_type = "oauth" -> [status |-> "Configured"]
      [] auth_type = "api" -> [status |-> "ApiKeyConfigured"]
      [] auth_type = "wellknown" -> [status |-> "WellKnownConfigured"]

\* check_oauth_status: the Ok value (the function has no Err return)
check_oauth_status(provider, file) ==
    IF file.kind = "no_paths" THEN Unknown("Cannot determine OpenCode data directory")
    ELSE IF file.kind = "missing" THEN NotConfigured
    ELSE IF file.kind = "removed" THEN NotConfigured
    ELSE IF file.kind = "denied" THEN Unknown("Permission denied: ..")
    ELSE IF file.kind = "io_error" THEN Unknown("Read error: ..")
    ELSE IF file.kind = "unparsable" THEN Unknown("Parse error: ..")
    ELSE IF provider \notin DOMAIN file.data THEN NotConfigured
    ELSE IF file.data[provider] = "malformed" THEN Unknown("Auth info parse error: ..")
    ELSE to_oauth_status(file.data[provider])

\* check_oauth_status_batch: the map it returns
check_oauth_status_batch(providers, file) ==
    IF file.kind = "no_paths"
    THEN [p \in providers |-> Unknown("Cannot determine OpenCode data directory")]
    ELSE IF file.kind # "json"
    THEN [p \in providers |-> NotConfigured]
    ELSE [p \in providers |->
            IF p \notin DOMAIN file.data THEN NotConfigured
            ELSE IF file.data[p] = "malformed" THEN Unknown("Parse error")
            ELSE to_oauth_status(file.data[p])]

\* the environment the probes run in
AuthFileIs(file) ==
    /\ auth_file = None
    /\ auth_file' = file
    /\ UNCHANGED <<probe_single, probe_batch, exceptProbe>>

CheckOAuthStatus(provider) ==
    /\ auth_file # None
    /\ probe_single' = [provider |-> provider, ret |-> check_oauth_status(provider, auth_file)]
    /\ UNCHANGED <<auth_file, probe_batch, exceptProbe>>

CheckOAuthStatusBatch(providers) ==
    /\ auth_file # None
    /\ probe_batch' =
         [providers |-> providers, ret |-> check_oauth_status_batch(providers, auth_file)]
    /\ UNCHANGED <<auth_file, probe_single, exceptProbe>>

\* ------------------------------------------------------- specifications
Init ==
    /\ IpcStateNew
    /\ nsent = 0
    /\ nreads = 0
    /\ lastRead = None
    /\ pc = [c \in Conns |-> "listen"]
    /\ state = [c \in Conns |-> ConnectionStateNew(ExpectedToken)]
    /\ result = [c \in Conns |-> None]
    /\ cur = [c \in Conns |-> None]
    /\ last_in = None
    /\ nin = [c \in Conns |-> 0]
    /\ out = [c \in Conns |-> <<>>]
    /\ last_out = None
    /\ nreq = [c \in Conns |-> 0]
    /\ last_step = None
    /\ accept_loop = TRUE
    /\ peer = [c \in Conns |-> None]
    /\ app_config = AppConfigDefault
    /\ config_tx = <<>>
    /\ config_init = FALSE
    /\ config_file = None
    /\ config_saving = None
    /\ effects = [stopped |-> {}, probed |-> {}, http |-> {}]
    /\ accepted = [c \in Conns |-> <<>>]
    /\ applied = [c \in Conns |-> <<>>]
    /\ config_accepted = <<>>
    /\ stop_pc = "idle"
    /\ stop_arg = None
    /\ stop_ret = None
    /\ processes = RunningPids
    /\ signals = {}
    /\ backoffs = 0
    /\ builder = ServerInfoBuilderDefault
    /\ built = None
    /\ files = [p \in {config_path, temp_path} |-> None]
    /\ save_pc = "idle"
    /\ save_cfg = None
    /\ save_prev = None
    /\ save_ret = None
    /\ nsaves = 0
    /\ loaded = None
    /\ retry_calls = <<>>
    /\ redacted_calls = <<>>
    /\ auth_file = None
    /\ probe_single = None
    /\ probe_batch = None
    /\ spawn_pc = "idle"
    /\ child = None
    /\ kill_sent = FALSE
    /\ elapsed = 0
    /\ current_interval = 0
    /\ last_probe = None
    /\ last_backoff = None
    /\ health_err = None
    /\ spawn_ret = None
    /\ nspawns = 0
    /\ task_pc = [t \in Tasks |-> "idle"]
    /\ task_op = [t \in Tasks |-> None]
    /\ task_ret = [t \in Tasks |-> None]
    /\ ntask_calls = [t \in Tasks |-> 0]
    /\ init_guard = None
    /\ tx_guard = None
    /\ tx_slot = FALSE
    /\ channels = 0
    /\ consumers = 0
    /\ mappings = None
    /\ codec_pc = "config"
    /\ TO_SNAKE = None
    /\ TO_JS = None
    /\ key_call = None
    /\ json_call = None

\* the IPC server: connections, their handlers, and the two actors
Next ==
    \/ \E c \in Conns : Accept(c)
    \/ AcceptFails
    \/ \E c \in Conns : RecvFirst(c)
    \/ \E c \in Conns : RecvFrame(c)
    \/ \E c \in Conns : HandleAuthHandshake(c)
    \/ \E c \in Conns : HandleOther(c)
    \/ \E c \in Conns : HandleDiscoverServer(c)
    \/ \E c \in Conns : HandleSpawnServer(c)
    \/ \E c \in Conns : HandleCheckHealth(c)
    \/ \E c \in Conns : HandleStopServer(c)
    \/ \E c \in Conns : HandleSession(c)
    \/ \E c \in Conns : HandleGetConfig(c)
    \/ \E c \in Conns : HandleUpdateConfig(c)
    \/ \E c \in Conns : ActorRecv(c)
    \/ \E c \in Conns : ActorClient(c)
    \/ ConfigActor
    \/ ConfigSave

Spec == Init /\ [][Next]_vars

\* the IpcState API under concurrent callers: update() with any command,
\* get_server and get_opencode_client, against the state actor
NextState ==
    \/ \E cmd \in {SetServer(i) : i \in ApiServerInfos} \cup {ClearServer} : ApiUpdate(cmd)
    \/ ActorRecv(ApiInstance)
    \/ ActorClient(ApiInstance)
    \/ ApiGetServer
    \/ ApiGetClient

SpecState == Init /\ [][NextState]_vars

\* one call of stop_pid while the processes of the machine come and go
NextStop ==
    \/ \E pid \in StopPids : StopPid(pid)
    \/ StopSignal
    \/ StopVerify
    \/ \E p \in RunningPids : ProcessExits(p)

SpecStop == Init /\ [][NextStop]_vars

\* stop_pid is a blocking function: once called it runs, and its sleeps end
StopProgress == StopSignal \/ StopVerify

SpecStopFair == SpecStop /\ WF_vars(StopProgress)

\* one ServerInfoBuilder: any sequence of setters, then build()
NextBuilder ==
    \/ with_pid
    \/ with_port
    \/ with_base_url
    \/ with_name
    \/ with_command
    \/ with_owned
    \/ BuildCall

SpecBuilder == Init /\ [][NextBuilder]_vars

\* ConfigState: any sequence of update calls while the config actor runs
NextConfig ==
    \/ \E cfg \in ApiConfigs : ApiConfigUpdate(cfg)
    \/ ConfigActor
    \/ ConfigSave

SpecConfig == Init /\ [][NextConfig]_vars

\* calls of AppConfig::save that fail or are cut off at any step, and loads
NextSave ==
    \/ \E cfg \in ApiConfigs : Save(cfg)
    \/ SaveCreateDir
    \/ SaveCreateTemp
    \/ SaveWriteTemp
    \/ SaveRename
    \/ SaveCrash
    \/ Load

SpecSave == Init /\ [][NextSave]_vars

\* calls of the two is_retryable functions on any error and any status
NextRetry ==
    \/ IsRetryableCall
    \/ StatusIsRetryableCall

SpecRetry == Init /\ [][NextRetry]_vars

\* any operations on keys made from any secrets
NextRedacted == \E op \in RedactedOps, secret \in Secrets : RedactedCall(op, secret)

SpecRedacted == Init /\ [][NextRedacted]_vars

\* tasks that call update() and get_server() on one handle while its actor
\* runs
NextTasks ==
    \/ \E t \in Tasks, op \in TaskOps : TaskCall(t, op)
    \/ \E t \in Tasks : EnsureActorLock(t)
    \/ \E t \in Tasks : EnsureActorStore(t)
    \/ \E t \in Tasks : UpdateLock(t)
    \/ \E t \in Tasks : UpdateSend(t)
    \/ \E t \in Tasks : TaskGetServer(t)
    \/ ActorRecv(ApiInstance)
    \/ ActorClient(ApiInstance)

SpecTasks == Init /\ [][NextTasks]_vars

\* the runtime schedules every task; the mutexes and the channel of tokio
\* serve their waiters in the order of arrival, so a task that can take its
\* step again and again takes it; the actor takes its step when it can
SpecTasksFair ==
    /\ SpecTasks
    /\ \A t \in Tasks : SF_vars(TaskStep(t))
    /\ WF_vars(ActorRecv(ApiInstance) \/ ActorClient(ApiInstance))

\* the desktop commands discover_server, spawn_server and stop_server, each
\* in a task of its own, on the one AppState the application manages
NextCommands ==
    \/ \E t \in Tasks : CmdDiscoverServer(t)
    \/ \E t \in Tasks : CmdSpawnServer(t)
    \/ \E t \in Tasks : CmdSetServer(t)
    \/ \E t \in Tasks : CmdStopServer(t)
    \/ \E t \in Tasks : CmdStopPid(t)
    \/ \E t \in Tasks : CmdClearServer(t)
    \/ ActorRecv(ApiInstance)
    \/ ActorClient(ApiInstance)

SpecCommands == Init /\ [][NextCommands]_vars

\* calls of spawn_and_wait with any outcome of every step
NextHealth ==
    \/ SpawnAndWait
    \/ SpawnServerProcess
    \/ ParseServerUrl
    \/ CheckHealth
    \/ NextBackoff
    \/ KillChild
    \/ ReturnErr
    \/ ReturnServerInfo

SpecHealth == Init /\ [][NextHealth]_vars

\* the task that runs spawn_and_wait is scheduled, and each thing it awaits
\* after the URL was read ends: the probe by its timeout, the sleep, the kill
HealthProgress == CheckHealth \/ NextBackoff \/ KillChild \/ ReturnErr \/ ReturnServerInfo

SpecHealthFair == SpecHealth /\ WF_vars(HealthProgress)

\* the two probes on any auth.json
NextProbe ==
    \/ \E file \in AuthFiles : AuthFileIs(file)
    \/ \E provider \in Providers : CheckOAuthStatus(provider)
    \/ \E providers \in SUBSET Providers : CheckOAuthStatusBatch(providers)

SpecProbe == Init /\ [][NextProbe]_vars

\* the build of the field normalizer from any mapping table, and calls of
\* the four generated functions
NextCodec ==
    \/ \E m \in MappingTables : ReadFieldConfig(m)
    \/ GenerateFieldNormalizer
    \/ NormalizeKeyCall
    \/ DenormalizeKeyCall
    \/ NormalizeJsonCall
    \/ DenormalizeJsonCall

SpecCodec == Init /\ [][NextCodec]_vars

\* ------------------------------------------------------------ properties
\* the frame is a binary AuthHandshake envelope
IsHandshake(f) ==
    /\ f # None
    /\ f.type = "Binary"
    /\ Decode(f.data).ok
    /\ Decode(f.data).msg.payload # None
    /\ Decode(f.data).msg.payload.kind = "AuthHandshake"

\* the frame is a binary AuthHandshake envelope with the expected token
IsValidHandshake(f) ==
    IsHandshake(f) /\ Decode(f.data).msg.payload.token = ExpectedToken

\* the text contains the fragment
Contains(message, fragment) == \E i \in DOMAIN message : message[i] = fragment

InLoop(c) == pc[c] \in {"read", "handle"}

\* the step in which connection c reads its first frame
ReadsFirst(c) == nin[c] = 0 /\ nin'[c] = 1 /\ last_in'.conn = c /\ last_in'.at = 1

\* connection c has returned: it reads nothing more, writes nothing more,
\* dispatches nothing and sends no command
StaysClosed(c) ==
    /\ pc'[c] = "done" /\ result'[c] = result[c]
    /\ state'[c] = state[c] /\ cur'[c] = cur[c]
    /\ nin'[c] = nin[c] /\ nreq'[c] = nreq[c] /\ out'[c] = out[c]
    /\ Len(command_tx'[c]) <= Len(command_tx[c])

\* C1 (auth gate): a connection whose first frame is not a binary
\* AuthHandshake with the expected token is closed by the step that reads the
\* frame: it does not enter the authenticated loop, dispatches nothing,
\* changes neither the binding nor the configuration nor the backend, and the
\* only frame it can write is the refusal of a handshake; a closed connection
\* does nothing more. A connection that has not been authenticated never has
\* a request in a handler.
C1_Step ==
    \A c \in Conns :
        /\ (ReadsFirst(c) /\ ~IsValidHandshake(last_in'.frame)) =>
              /\ pc'[c] = "done"
              /\ ~state'[c].authenticated
              /\ cur'[c] = None /\ nreq'[c] = 0 /\ last_step' = None
              /\ bindingVars' = bindingVars /\ configVars' = configVars
              /\ effects' = effects
              /\ \/ out'[c] = <<>> /\ last_out' = None
                 \/ /\ IsHandshake(last_in'.frame)
                    /\ out'[c] = <<[at |-> 1, handshake |-> TRUE]>>
                    /\ last_out'.conn = c
                    /\ last_out'.reply.payload.kind = "AuthHandshakeResponse"
                    /\ last_out'.reply.payload.success = FALSE
        /\ pc[c] = "done" => StaysClosed(c)

C1_State ==
    \A c \in Conns :
        ~state[c].authenticated =>
            /\ pc[c] \in {"listen", "await_auth", "done"}
            /\ cur[c] = None /\ nreq[c] = 0 /\ nin[c] <= 1
            /\ ~actor_init[c] /\ command_tx[c] = <<>>
            /\ server[c] = None /\ opencode_client[c] = None

C2_State ==
    \A c \in Conns :
        /\ InLoop(c) =>
              /\ state[c].authenticated
              /\ Len(out[c]) >= 1
              /\ out[c][1] = [at |-> 1, handshake |-> TRUE]
              /\ \A i \in 2..Len(out[c]) : ~out[c][i].handshake
        /\ state[c].authenticated => nin[c] >= 1
        /\ nin[c] >= 2 =>
              (state[c].authenticated /\ Len(out[c]) >= 1 /\ out[c][1].handshake)

C2_Step ==
    \A c \in Conns :
        /\ ReadsFirst(c) =>
              (state'[c].authenticated <=> IsValidHandshake(last_in'.frame))
        /\ ~ReadsFirst(c) => state'[c] = state[c]
        /\ (ReadsFirst(c) /\ IsValidHandshake(last_in'.frame)) =>
              \/ /\ pc'[c] = "read" /\ result'[c] = None
                 /\ out'[c] = <<[at |-> 1, handshake |-> TRUE]>>
                 /\ last_out'.conn = c /\ last_out'.at = 1
                 /\ last_out'.re = last_in'.frame
                 /\ last_out'.reply.payload =
                       [kind |-> "AuthHandshakeResponse", success |-> TRUE,
                        error |-> None]
              \/ /\ pc'[c] = "done" /\ result'[c] = "Err"
                 /\ out'[c] = <<>> /\ last_out' = None

C2_Authenticated == [](C2_State) /\ [][C2_Step]_vars

\* a connection has just been authenticated by a handshake with request id
\* 2, after another one was refused
C2_Witness ==
    \E c, d \in Conns :
        /\ pc[d] = "done" /\ ~state[d].authenticated /\ Len(out[d]) = 1
        /\ state[c].authenticated /\ pc[c] = "read"
        /\ last_out # None /\ last_out.conn = c /\ last_out.at = 1
        /\ last_out.re = Frame([request_id |-> 2,
                                payload |-> AuthHandshake(ExpectedToken)])
        /\ last_out.reply.payload.success
        /\ nin[c] = 1 /\ Len(out[c]) = 1

\* C3 (wrong token): the step that reads a first frame that is an
\* AuthHandshake with another token ends the task; it returns Ok exactly
\* when it wrote the one AuthHandshakeResponse{success:false,
\* error:"Invalid authentication token"} (Err, with nothing written, when
\* that write failed); the connection is not authenticated, and it reads no
\* further frame and writes nothing else.
C3_Step ==
    \A c \in Conns :
        /\ (ReadsFirst(c) /\ IsHandshake(last_in'.frame)
               /\ ~IsValidHandshake(last_in'.frame)) =>
              /\ pc'[c] = "done" /\ ~state'[c].authenticated
              /\ \/ /\ result'[c] = "Ok"
                    /\ out'[c] = <<[at |-> 1, handshake |-> TRUE]>>
                    /\ last_out' =
                          [conn |-> c, at |-> 1, re |-> last_in'.frame,
                           reply |-> AuthResponse(FALSE, "Invalid authentication token")]
                 \/ result'[c] = "Err" /\ out'[c] = <<>> /\ last_out' = None
        /\ (pc[c] = "done" /\ ~state[c].authenticated) =>
              (pc'[c] = "done" /\ nin'[c] = nin[c] /\ out'[c] = out[c]
                 /\ ~state'[c].authenticated)

C3_WrongToken == [][C3_Step]_vars

\* the token "TOK" was refused and the refusal was written
C3_Witness ==
    \E c \in Conns :
        /\ last_out # None /\ last_out.conn = c
        /\ last_out.re = Frame([request_id |-> 2, payload |-> AuthHandshake("TOK")])
        /\ last_out.reply.payload.success = FALSE
        /\ pc[c] = "done" /\ result[c] = "Ok" /\ Len(out[c]) = 1 /\ nin[c] = 1

\* C4 (second handshake): the turn of the authenticated loop for an
\* AuthHandshake payload, whatever its token, writes
\* Error{AuthError, "Auth handshake already completed"} with the request's
\* id and goes back to reading; it changes neither the connection state nor
\* the binding nor the world (when the write fails the task returns Err).
C4_Step ==
    \A c \in Conns :
        (pc[c] = "handle" /\ cur[c].payload.kind = "AuthHandshake"
            /\ pc'[c] # "handle") =>
            /\ state' = state
            /\ bindingVars' = bindingVars /\ configVars' = configVars
            /\ effects' = effects
            /\ last_step'.conn = c
            /\ IF last_step'.sent
               THEN /\ pc'[c] = "read" /\ result'[c] = None
                    /\ out'[c] = Append(out[c], [at |-> nin[c], handshake |-> FALSE])
                    /\ last_out' =
                          [conn |-> c, at |-> nin[c], re |-> Frame(cur[c]),
                           reply |-> ErrorResponse(cur[c].request_id, AuthError,
                                                   "Auth handshake already completed")]
               ELSE pc'[c] = "done" /\ result'[c] = "Err" /\ out'[c] = out[c]

C4_SecondHandshake == [][C4_Step]_vars

\* a second handshake (with a wrong token) has just been answered, and the
\* connection reads on, authenticated
C4_Witness ==
    \E c \in Conns :
        /\ last_out # None /\ last_out.conn = c /\ last_out.at = 2
        /\ last_out.re = Frame([request_id |-> 2, payload |-> AuthHandshake("")])
        /\ last_out.reply.payload.code = AuthError
        /\ pc[c] = "read" /\ nin[c] = 2 /\ state[c].authenticated

\* C5 as stated: every reply carries the request_id of the client message it
\* answers, the reply to the auth handshake included.
C5_EveryReplyEchoesId ==
    (last_out # None /\ Decode(last_out.re.data).ok) =>
        last_out.reply.request_id = Decode(last_out.re.data).msg.request_id

\* C5 (correlation), amended: every reply written in the authenticated loop
\* to a frame that decodes carries the request_id of that frame, whatever the
\* payload and the outcome; the reply to a frame that does not decode carries
\* 0, and the reply to the first frame (the auth handshake reply) carries 1
\* whatever id the handshake had.
C5_Correlation ==
    last_out # None =>
        LET d == Decode(last_out.re.data) IN
        /\ last_out.at = 1 =>
              /\ last_out.reply.payload.kind = "AuthHandshakeResponse"
              /\ last_out.reply.request_id = AuthRequestId
        /\ (last_out.at > 1 /\ d.ok) =>
              last_out.reply.request_id = d.msg.request_id
        /\ (last_out.at > 1 /\ ~d.ok) =>
              /\ last_out.reply.request_id = UndecodedRequestId
              /\ last_out.reply.payload.kind = "Error"

\* a request of the loop with id 2 that failed in its handler has been
\* answered with that id, on a connection whose handshake reply was written
C5_Witness ==
    \E c \in Conns :
        /\ last_out # None /\ last_out.conn = c
        /\ Len(out[c]) = 2 /\ out[c][1].handshake
        /\ last_out.at = 2
        /\ last_out.re = Frame([request_id |-> 2, payload |-> [kind |-> "ListSessions"]])
        /\ last_out.reply.request_id = 2
        /\ last_out.reply.payload.kind = "Error"
        /\ last_out.reply.payload.code = InternalError

\* C6 (order of replies): while a connection is in the authenticated loop,
\* every binary frame read before the one being handled has its reply
\* written (one reply per binary frame, after the handshake reply), so a
\* frame is read only when nothing is owed; the replies are written in the
\* order of the frames they answer, and a reply written by a handler answers
\* the frame read last.
C6_State ==
    \A c \in Conns :
        /\ InLoop(c) =>
              Len(out[c]) = 1 + nreq[c] - (IF pc[c] = "handle" THEN 1 ELSE 0)
        /\ \A i, j \in DOMAIN out[c] : i < j => out[c][i].at < out[c][j].at

C6_Step ==
    \A c \in Conns :
        (out'[c] # out[c]) =>
            /\ out'[c] = Append(out[c], [at |-> nin'[c],
                                         handshake |-> out'[c][Len(out'[c])].handshake])
            /\ last_out'.conn = c /\ last_out'.at = nin'[c]
            /\ pc[c] = "handle" =>
                  (nin'[c] = nin[c] /\ last_out'.re = Frame(cur[c]))

C6_ReplyOrder == [](C6_State) /\ [][C6_Step]_vars

\* two requests on one connection, the first with the larger id, both
\* answered, the second reply being the latest
C6_Witness ==
    \E c \in Conns :
        /\ Len(out[c]) = 3 /\ nreq[c] = 2
        /\ out[c][2].at = 2 /\ out[c][3].at = 3
        /\ last_out # None /\ last_out.conn = c
        /\ last_out.re = Frame([request_id |-> 1, payload |-> [kind |-> "CheckHealth"]])
        /\ last_out.reply.payload.kind = "CheckHealthResponse"

\* C7 (handler errors): when handle_message returns an error (discovery or
\* spawn failed, no descriptor or no client in the binding, the backend call
\* failed), the loop writes Error{InternalError} with the request's id and
\* the error's text and goes back to reading: the connection stays
\* authenticated, the task does not return and the accept loop is untouched.
\* The task returns (Err) only when that write fails.
C7_Step ==
    \A c \in Conns :
        (pc[c] = "handle" /\ pc'[c] # "handle" /\ last_step'.err) =>
            /\ last_step'.conn = c
            /\ accept_loop' = accept_loop
            /\ state'[c] = state[c] /\ state[c].authenticated
            /\ \A d \in Conns \ {c} : pc'[d] = pc[d] /\ result'[d] = result[d]
            /\ IF last_step'.sent
               THEN /\ pc'[c] = "read" /\ result'[c] = None
                    /\ out'[c] = Append(out[c], [at |-> nin[c], handshake |-> FALSE])
                    /\ last_out'.conn = c
                    /\ last_out'.re = Frame(cur[c])
                    /\ last_out'.reply.request_id = cur[c].request_id
                    /\ last_out'.reply.payload.kind = "Error"
                    /\ last_out'.reply.payload.code = InternalError
                    /\ Contains(last_out'.reply.payload.message, "IO Error:")
               ELSE pc'[c] = "done" /\ result'[c] = "Err" /\ out'[c] = out[c]

C7_HandlerErrors == [][C7_Step]_vars

\* a failed discovery has just been answered: the connection reads on,
\* authenticated, its task has not returned and the accept loop runs
C7_Witness ==
    \E c \in Conns :
        /\ last_step = [conn |-> c, err |-> TRUE, sent |-> TRUE]
        /\ last_out # None /\ last_out.conn = c /\ last_out.at = 2
        /\ Contains(last_out.reply.payload.message, "Discovery failed:")
        /\ pc[c] = "read" /\ result[c] = None /\ state[c].authenticated
        /\ accept_loop

\* C8 (no binding): a StopServer or CheckHealth handled while the server
\* cell is empty is answered with Error{InternalError} whose text contains
\* "No server connected", with the request's id; stop_pid is not called, no
\* probe is made, no command is sent, the binding is unchanged, and the
\* connection goes back to reading (the task returns only when the write
\* fails).
C8_Step ==
    \A c \in Conns :
        (pc[c] = "handle" /\ cur[c].payload.kind \in {"StopServer", "CheckHealth"}
            /\ server[c] = None /\ pc'[c] # "handle") =>
            /\ effects' = effects
            /\ bindingVars' = bindingVars
            /\ last_step'.conn = c /\ last_step'.err
            /\ IF last_step'.sent
               THEN /\ pc'[c] = "read" /\ result'[c] = None
                    /\ last_out'.conn = c
                    /\ last_out'.re = Frame(cur[c])
                    /\ last_out'.reply.request_id = cur[c].request_id
                    /\ last_out'.reply.payload.kind = "Error"
                    /\ last_out'.reply.payload.code = InternalError
                    /\ Contains(last_out'.reply.payload.message,
                                "No server connected")
               ELSE pc'[c] = "done" /\ result'[c] = "Err"

C8_NoBinding == [][C8_Step]_vars

\* a StopServer with nothing bound was answered with the error, nothing was
\* stopped or probed, and the connection reads on
C8_Witness ==
    \E c \in Conns :
        /\ last_out # None /\ last_out.conn = c
        /\ last_out.re = Frame([request_id |-> 2, payload |-> [kind |-> "StopServer"]])
        /\ last_out.reply.payload.kind = "Error"
        /\ Contains(last_out.reply.payload.message, "No server connected")
        /\ effects.stopped = {} /\ effects.probed = {}
        /\ server[c] = None /\ pc[c] = "read"

\* the descriptor a reader can obtain: the server cell, or, while the actor
\* holds the write lock, the value the cell had when the command started
\* (get_server waits for the lock; get_opencode_client does not)
ObservableServer(c) == IF ServerWriteLocked(c) THEN actor[c].existing ELSE server[c]

\* the client that OpencodeClient::new derives from a descriptor
DerivedFrom(client, info) ==
    /\ UrlParse(info.base_url).ok
    /\ client.base_url = UrlParse(info.base_url).url

\* C9 (single-writer consistency): whenever the descriptor can be read (the
\* actor does not hold the server write lock) and both cells are occupied,
\* the client's base URL is the parsed base URL of the descriptor; every
\* get_server that returned a descriptor while a client was stored, and every
\* get_opencode_client that returned a client while the descriptor was
\* readable and present, saw a client derived from that descriptor; and a
\* get_server never runs while the lock is held.
C9_SingleWriter ==
    /\ \A c \in Conns :
          (~ServerWriteLocked(c) /\ server[c] # None /\ opencode_client[c] # None)
              => DerivedFrom(opencode_client[c], server[c])
    /\ lastRead # None =>
          /\ lastRead.op = "get_server" => ~lastRead.locked
          /\ (lastRead.op = "get_server" /\ lastRead.value # None
                 /\ lastRead.other # None)
                => DerivedFrom(lastRead.other, lastRead.value)
          /\ (lastRead.op = "get_opencode_client" /\ ~lastRead.locked
                 /\ lastRead.value # None /\ lastRead.other # None)
                => DerivedFrom(lastRead.value, lastRead.other)

\* while SetServer replaces the descriptor of backend 1 by that of backend 2
\* (server cell written, client cell not yet), a reader has read the client
C9_Witness ==
    /\ ServerWriteLocked(ApiInstance)
    /\ actor[ApiInstance].existing = ServerInfo(1, FALSE)
    /\ server[ApiInstance] = ServerInfo(2, FALSE)
    /\ lastRead # None
    /\ lastRead.op = "get_opencode_client" /\ lastRead.locked
    /\ lastRead.value # None /\ lastRead.other = ServerInfo(2, FALSE)
    /\ opencode_client[ApiInstance] = lastRead.value

SlotAfter(cmds) ==
    IF cmds = <<>> THEN None
    ELSE LET last == cmds[Len(cmds)]
         IN  IF last.type = "SetServer" THEN last.info ELSE None

\* C11 (FIFO): the commands the state actor has applied, followed by those
\* still in the channel, are exactly the commands update() accepted, in the
\* order it accepted them (none lost, none duplicated, none reordered); the
\* descriptor slot is the slot after the applied prefix; update() appends to
\* the accepted sequence and the actor extends the applied one by the oldest
\* command waiting; and the value every get_server returns is the slot as it
\* stood after the prefix of the accepted commands applied at that instant.
C11_State ==
    \A c \in Conns :
        /\ accepted[c] = applied[c] \o command_tx[c]
        /\ server[c] = SlotAfter(applied[c])
        /\ actor[c].pc = "client" =>
              (applied[c] # <<>> /\ actor[c].cmd = applied[c][Len(applied[c])])

C11_Step ==
    /\ \A c \in Conns :
          /\ Len(accepted'[c]) >= Len(accepted[c])
          /\ SubSeq(accepted'[c], 1, Len(accepted[c])) = accepted[c]
          /\ Len(applied'[c]) \in {Len(applied[c]), Len(applied[c]) + 1}
          /\ SubSeq(applied'[c], 1, Len(applied[c])) = applied[c]
          /\ Len(applied'[c]) = Len(applied[c]) + 1 =>
                /\ command_tx[c] # <<>>
                /\ applied'[c][Len(applied'[c])] = accepted[c][Len(applied[c]) + 1]
    /\ (nreads' = nreads + 1 /\ lastRead'.op = "get_server") =>
          /\ Len(applied[ApiInstance]) <= Len(accepted[ApiInstance])
          /\ lastRead'.value =
                SlotAfter(SubSeq(accepted[ApiInstance], 1, Len(applied[ApiInstance])))

C11_Fifo == [](C11_State) /\ [][C11_Step]_vars

\* three commands were accepted, ClearServer, SetServer of backend 1 and
\* SetServer of backend 2; the first two are applied, the third waits in the
\* channel, and get_server has returned the descriptor of backend 1
C11_Witness ==
    /\ accepted[ApiInstance] =
          <<ClearServer, SetServer(ServerInfo(1, FALSE)), SetServer(ServerInfo(2, FALSE))>>
    /\ applied[ApiInstance] = <<ClearServer, SetServer(ServerInfo(1, FALSE))>>
    /\ command_tx[ApiInstance] = <<SetServer(ServerInfo(2, FALSE))>>
    /\ lastRead # None
    /\ lastRead.op = "get_server" /\ lastRead.value = ServerInfo(1, FALSE)

\* C12 (singleton binding) as stated: when an authenticated connection has
\* had a descriptor installed by its DiscoverServer or SpawnServer (the
\* SetServer it sent last is applied), the descriptor that the handlers of
\* every other authenticated connection of the server read, CheckHealth and
\* StopServer with get_server, is that descriptor, and the client the
\* session handlers read is the one derived from it.
C12_SingletonBinding ==
    \A c, d \in Conns :
        (/\ c # d
         /\ state[c].authenticated /\ state[d].authenticated
         /\ InLoop(c) /\ InLoop(d)
         /\ accepted[c] # <<>>
         /\ accepted[c][Len(accepted[c])].type = "SetServer"
         /\ command_tx[c] = <<>> /\ actor[c] = ActorIdle
         /\ accepted[d] = <<>>)
        => /\ server[d] = accepted[c][Len(accepted[c])].info
           /\ opencode_client[d] # None
           /\ DerivedFrom(opencode_client[d], accepted[c][Len(accepted[c])].info)

\* C13 (pid-1 safety) as stated: a call stop_pid(1) issues no signal, whether
\* process 1 exists or not, and the value it returns is false.
C13_Pid1Safety ==
    (stop_pc # "idle" /\ stop_arg = 1) =>
        /\ signals = {}
        /\ stop_pc = "done" => stop_ret = FALSE

\* C14 (no such process): a call of stop_pid with a pid that no process of
\* the machine has returns at once, with false, having issued no signal and
\* without a turn of the verification loop; and a call that has returned
\* does nothing more.
C14_Step ==
    /\ (stop_pc = "idle" /\ stop_pc' # "idle" /\ stop_arg' \notin processes) =>
          /\ stop_pc' = "done"
          /\ stop_ret' = FALSE
          /\ signals' = {}
          /\ backoffs' = 0
    /\ stop_pc = "done" =>
          /\ stop_pc' = "done" /\ stop_arg' = stop_arg /\ stop_ret' = stop_ret
          /\ signals' = signals /\ backoffs' = backoffs

C14_NoSuchProcess == [][C14_Step]_vars

\* stop_pid was called with the pid of a backend that had exited before, and
\* has returned false with no signal issued and no turn of the loop
C14_Witness ==
    /\ stop_pc = "done"
    /\ stop_arg = PidOf(1)
    /\ PidOf(1) \notin processes
    /\ 1 \in processes
    /\ stop_ret = FALSE
    /\ signals = {}
    /\ backoffs = 0

\* C15 (descriptor validation) as stated: every descriptor build() returns
\* has pid > 0, a port in 1..=65535, a base URL that starts with http:// or
\* https://, and a non-empty name and command.
C15_DescriptorValidation ==
    (built # None /\ built.ok) =>
        /\ built.value.pid > 0
        /\ built.value.port \in 1..65535
        /\ HasHttpPrefix(built.value.base_url)
        /\ built.value.name # ""
        /\ built.value.command # ""

\* the checks of build() in the order the claim gives them, each with
\* whether the builder fails it and the text of its error
BuildChecks(b) ==
    <<[fails |-> b.pid = None, message |-> "PID is required"],
      [fails |-> b.pid # None /\ b.pid.some = 0, message |-> "PID must be non-zero"],
      [fails |-> b.port = None, message |-> "Port is required"],
      [fails |-> b.base_url = None, message |-> "Base URL is required"],
      [fails |-> b.base_url # None /\ b.base_url.some = <<>>,
       message |-> "Base URL cannot be empty"],
      [fails |-> b.base_url # None /\ ~HasHttpPrefix(b.base_url.some),
       message |-> "Invalid base URL format:"],
      [fails |-> b.name = None, message |-> "Server name is required"],
      [fails |-> b.name # None /\ b.name.some = "", message |-> "Server name cannot be empty"],
      [fails |-> b.command = None, message |-> "Command is required"],
      [fails |-> b.command # None /\ b.command.some = "",
       message |-> "Command cannot be empty"],
      [fails |-> b.owned = None, message |-> "Owned is required"]>>

\* C16 (build order): when some check fails, build() returns the Validation
\* error of the first failing check in the order pid (present, non-zero),
\* port (present), base URL (present, non-empty, http(s):// prefix), name
\* (present, non-empty), command (present, non-empty), owned (present); when
\* none fails it returns Ok with exactly the six values the setters stored;
\* so it returns Ok if and only if every check passes.
C16_BuildOrder ==
    built # None =>
        LET checks == BuildChecks(builder)
            failing == {i \in DOMAIN checks : checks[i].fails}
        IN  /\ built.ok <=> failing = {}
            /\ failing # {} =>
                  LET first == CHOOSE i \in failing : \A j \in failing : i <= j
                  IN  /\ built.error.kind = "Validation"
                      /\ built.error.message[1] = checks[first].message
            /\ failing = {} =>
                  built.value =
                      [pid |-> builder.pid.some, port |-> builder.port.some,
                       base_url |-> builder.base_url.some, name |-> builder.name.some,
                       command |-> builder.command.some, owned |-> builder.owned.some]

\* build() on a builder with pid 0, no port, an ftp:// base URL and no owned
\* flag has returned the error of the pid
C16_Witness ==
    /\ built = ValidationError(<<"PID must be non-zero">>)
    /\ builder.pid = Some(0)
    /\ builder.port = None
    /\ builder.base_url = Some(<<"ftp", "://", "example.com">>)
    /\ builder.name = Some(OPENCODE_BINARY)
    /\ builder.owned = None

\* C17: with the tables generated from a mapping file that passed
\* validate_mappings, denormalize_key(normalize_key(k)) = k for every
\* external key k, normalize_key(denormalize_key(s)) = s for every internal
\* key s, and a key in neither table is returned unchanged by both functions;
\* the calls made agree with it.
RoundTrip(call, first, second) ==
    /\ call # None
    /\ call.fns = <<first, second>>

C17_KeyBijection ==
    codec_pc = "ready" =>
        /\ \A k \in DOMAIN TO_SNAKE : denormalize_key(normalize_key(k)) = k
        /\ \A k \in DOMAIN TO_JS : normalize_key(denormalize_key(k)) = k
        /\ \A k \in FieldNames \ (DOMAIN TO_SNAKE \cup DOMAIN TO_JS) :
              normalize_key(k) = k /\ denormalize_key(k) = k
        /\ (RoundTrip(key_call, "normalize_key", "denormalize_key")
              /\ key_call.orig \in DOMAIN TO_SNAKE) => key_call.rets[2] = key_call.orig
        /\ (RoundTrip(key_call, "denormalize_key", "normalize_key")
              /\ key_call.orig \in DOMAIN TO_JS) => key_call.rets[2] = key_call.orig
        /\ (key_call # None
              /\ key_call.orig \notin DOMAIN TO_SNAKE \cup DOMAIN TO_JS) =>
                 \A i \in DOMAIN key_call.rets : key_call.rets[i] = key_call.orig

\* an external key was normalized to a different internal key and came back
C17_Witness ==
    /\ codec_pc = "ready"
    /\ RoundTrip(key_call, "normalize_key", "denormalize_key")
    /\ key_call.orig = "sessionID"
    /\ key_call.rets = <<"session_id", "sessionID">>

\* the keys of the objects of a JSON value, at every depth
RECURSIVE JsonKeys(_)
JsonKeys(value) ==
    IF value.t = "object"
    THEN DOMAIN value.map \cup UNION {JsonKeys(value.map[k]) : k \in DOMAIN value.map}
    ELSE IF value.t = "array"
    THEN UNION {JsonKeys(value.items[i]) : i \in DOMAIN value.items}
    ELSE {}

\* b is a with its object keys renamed by normalize_key: as many keys in
\* every object, and every primitive the same
RECURSIVE Renamed(_, _)
Renamed(a, b) ==
    /\ a.t = b.t
    /\ IF a.t = "object"
       THEN /\ Cardinality(DOMAIN a.map) = Cardinality(DOMAIN b.map)
            /\ \A k \in DOMAIN a.map :
                  /\ normalize_key(k) \in DOMAIN b.map
                  /\ Renamed(a.map[k], b.map[normalize_key(k)])
       ELSE IF a.t = "array"
       THEN /\ Len(a.items) = Len(b.items)
            /\ \A i \in DOMAIN a.items : Renamed(a.items[i], b.items[i])
       ELSE a = b

\* the keys of either table of the mapping
MappingKeys == DOMAIN TO_SNAKE \cup DOMAIN TO_JS

\* C18 as stated: a JSON value whose object keys are all keys of the mapping,
\* or all outside it, is returned by denormalize_json(normalize_json(v)).
C18_JsonRoundTrip ==
    (/\ codec_pc = "ready"
     /\ RoundTrip(json_call, "normalize_json", "denormalize_json")
     /\ \/ JsonKeys(json_call.orig) \subseteq MappingKeys
        \/ JsonKeys(json_call.orig) \cap MappingKeys = {})
        => json_call.rets[2] = json_call.orig

\* C18 amended: a JSON value each of whose object keys is an external key of
\* the mapping or a key of neither table is returned by
\* denormalize_json(normalize_json(v)), and normalize_json(v) has as many keys
\* in every object and the same primitives.
ExternalForm(value) ==
    \A k \in JsonKeys(value) : k \in DOMAIN TO_SNAKE \/ k \notin DOMAIN TO_JS

C18_JsonRoundTripExternal ==
    (/\ codec_pc = "ready"
     /\ RoundTrip(json_call, "normalize_json", "denormalize_json")
     /\ ExternalForm(json_call.orig))
        => /\ json_call.rets[2] = json_call.orig
           /\ Renamed(json_call.orig, json_call.rets[1])

\* an object nested in an array nested in an object, its key renamed and
\* renamed back
C18_Witness ==
    /\ codec_pc = "ready"
    /\ RoundTrip(json_call, "normalize_json", "denormalize_json")
    /\ ExternalForm(json_call.orig)
    /\ json_call.orig.t = "object"
    /\ \E k \in DOMAIN json_call.orig.map :
          /\ json_call.orig.map[k].t = "array"
          /\ Len(json_call.orig.map[k].items) = 1
          /\ json_call.orig.map[k].items[1].t = "object"
    /\ json_call.rets[1] # json_call.orig
    /\ json_call.rets[2] = json_call.orig



\* the configs the validation is to reject: version 0 or above the current
\* version, font points outside 8..72, a last-used URL that is empty or has
\* no http(s):// prefix
Invalid(cfg) ==
    \/ cfg.version = 0
    \/ cfg.version > ConfigVersion
    \/ cfg.base_font_points < MinFontPoints
    \/ cfg.base_font_points > MaxFontPoints
    \/ /\ cfg.last_opencode_url # None
       /\ \/ cfg.last_opencode_url.some = <<>>
          \/ ~HasHttpPrefix(cfg.last_opencode_url.some)

\* C19: when the config actor takes an UpdateAppConfig command whose config
\* is invalid, the in-memory config and config.json are after the step what
\* they were before it.
C19_Step ==
    (/\ config_tx # <<>>
     /\ Invalid(Head(config_tx).config)
     /\ config_tx' = Tail(config_tx))
        => /\ app_config' = app_config
           /\ config_file' = config_file

C19_InvalidDropped == [][C19_Step]_vars

\* a valid config was applied and saved, then a config with a URL without
\* prefix was taken from the channel: memory and file still hold the first
C19_Witness ==
    /\ Len(config_accepted) = 2
    /\ config_tx = <<>>
    /\ ~Invalid(config_accepted[1].config)
    /\ config_accepted[2].config.version = ConfigVersion
    /\ config_accepted[2].config.last_opencode_url = Some(<<"localhost", ":", "4096">>)
    /\ app_config = config_accepted[1].config
    /\ config_file = Some(ToJson(config_accepted[1].config))

\* the config of the last command of cmds that passes validation, or the
\* initial config
LastValid(cmds) ==
    LET valid == {i \in DOMAIN cmds : Validate(cmds[i].config)} IN
    IF valid = {} THEN AppConfigDefault
    ELSE cmds[CHOOSE i \in valid : \A j \in valid : j <= i].config

\* the commands the config actor has taken from its channel
ConfigApplied == SubSeq(config_accepted, 1, Len(config_accepted) - Len(config_tx))

\* C20: the channel of the config actor holds the accepted commands not yet
\* taken, in the order of the sends; the in-memory config is the last valid
\* config among the commands taken (the initial one if there is none), hence
\* the last valid one of the whole sequence once the channel is drained; and
\* it passes validation.
C20_ConfigFifo ==
    /\ Len(config_tx) <= Len(config_accepted)
    /\ config_tx = SubSeq(config_accepted, Len(config_accepted) - Len(config_tx) + 1,
                          Len(config_accepted))
    /\ app_config = LastValid(ConfigApplied)
    /\ config_tx = <<>> => app_config = LastValid(config_accepted)
    /\ Validate(app_config)

\* three commands drained: two different valid configs, then an invalid one
C20_Witness ==
    /\ Len(config_accepted) = 3
    /\ config_tx = <<>>
    /\ Validate(config_accepted[1].config)
    /\ Validate(config_accepted[2].config)
    /\ config_accepted[1] # config_accepted[2]
    /\ ~Validate(config_accepted[3].config)
    /\ app_config = config_accepted[2].config

\* C21 (UpdateConfig): the turn that handles an UpdateConfig request whose
\* config_json does not deserialize sends nothing to the config actor, leaves
\* the in-memory config alone and, when the write succeeds, answers
\* UpdateConfigResponse{success: false, error: Some(..)} with the request's
\* id; when the text deserializes, the config is sent to the config actor as
\* an UpdateAppConfig command and the answer is
\* UpdateConfigResponse{success: true}.
C21_Step ==
    \A c \in Conns :
        (pc[c] = "handle" /\ cur[c].payload.kind = "UpdateConfig" /\ pc'[c] # "handle") =>
            LET parsed == FromJson(cur[c].payload.config_json) IN
            /\ app_config' = app_config
            /\ config_file' = config_file
            /\ bindingVars' = bindingVars
            /\ IF parsed.ok
               THEN /\ config_tx' = Append(config_tx, UpdateAppConfig(parsed.value))
                    /\ config_accepted' = Append(config_accepted, UpdateAppConfig(parsed.value))
               ELSE /\ config_tx' = config_tx
                    /\ config_accepted' = config_accepted
            /\ last_step'.conn = c
            /\ last_step'.sent =>
                 /\ last_out'.conn = c
                 /\ last_out'.re = Frame(cur[c])
                 /\ last_out'.reply.request_id = cur[c].request_id
                 /\ last_out'.reply.payload.kind = "UpdateConfigResponse"
                 /\ last_out'.reply.payload.success = parsed.ok
                 /\ (last_out'.reply.payload.error = None) = parsed.ok
                 /\ pc'[c] = "read"

C21_UpdateConfig == [][C21_Step]_vars

\* an UpdateConfig whose text is no JSON was answered with success: false
\* and an error text; the config actor was never given a command
C21_Witness ==
    \E c \in Conns :
        /\ last_out # None /\ last_out.conn = c
        /\ last_out.re = Frame([request_id |-> 2,
                                payload |-> [kind |-> "UpdateConfig", config_json |-> <<"{">>]])
        /\ last_out.reply.request_id = 2
        /\ last_out.reply.payload.kind = "UpdateConfigResponse"
        /\ ~last_out.reply.payload.success
        /\ Contains(last_out.reply.payload.error, "Invalid config JSON:")
        /\ config_accepted = <<>> /\ ~config_init /\ app_config = AppConfigDefault
        /\ pc[c] = "read"

\* C22 (atomic save): in every state, during a call of save, after it
\* returned and after it was cut off at any step, config.json is absent or
\* holds a complete text: the one it held when the call began or the text of
\* the config being saved; and load never fails to parse it.
C22_AtomicSave ==
    /\ \/ files[config_path] = None
       \/ /\ FromJson(files[config_path].some).ok
          /\ \/ files[config_path] = save_prev
             \/ save_cfg # None /\ files[config_path] = Some(ToJson(save_cfg))
    /\ (loaded # None /\ ~loaded.ok) => loaded.error # "ParseError"

\* a second save was cut off after it had created its temp file: the temp
\* file is torn, config.json still holds the complete text of the first save,
\* and load returned that config
C22_Witness ==
    /\ nsaves = 2
    /\ save_ret = Crashed
    /\ files[temp_path] = Some(Torn(ToJson(save_cfg)))
    /\ save_prev # None
    /\ files[config_path] = save_prev
    /\ files[config_path] # Some(ToJson(save_cfg))
    /\ loaded = [ok |-> TRUE, value |-> FromJson(save_prev.some).value]

\* C23 (retryability): AuthSyncError::is_retryable returned TRUE exactly for
\* a Network error with is_timeout or is_connection set and for a
\* ProviderSync error whose status is 429, 502, 503 or 504, FALSE for every
\* other variant and status; HttpStatusCode::is_retryable returned TRUE
\* exactly for those four codes.
RetryableCodes == {429, 502, 503, 504}

C23_Retryable ==
    \A i \in DOMAIN retry_calls :
        LET call == retry_calls[i] IN
        IF call.fn = "is_retryable"
        THEN call.ret <=>
               \/ /\ call.arg.variant = "Network"
                  /\ call.arg.is_timeout \/ call.arg.is_connection
               \/ /\ call.arg.variant = "ProviderSync"
                  /\ call.arg.status_code \in RetryableCodes
        ELSE call.ret <=> call.arg \in RetryableCodes

\* is_retryable said no to a ProviderSync error with status 500 and yes to one
\* with status 503
C23_Witness ==
    /\ Len(retry_calls) = 2
    /\ retry_calls[1] = [fn |-> "is_retryable", arg |-> ProviderSync(500), ret |-> FALSE]
    /\ retry_calls[2] = [fn |-> "is_retryable", arg |-> ProviderSync(503), ret |-> TRUE]

\* C24 (redaction): of any two operations made on two keys, two Debugs wrote
\* the same text, two Displays wrote the same text and two serializations had
\* the same outcome, whatever the secrets; every serialization failed; and
\* len and is_empty gave the same result whenever the two secrets have the
\* same length, so that of all operations only as_str tells two secrets of
\* equal length apart.
C24_Redaction ==
    \A i, j \in DOMAIN redacted_calls :
        LET a == redacted_calls[i]
            b == redacted_calls[j]
        IN  /\ a.op = "Serialize" => ~a.ret.ok
            /\ (a.op = b.op /\ a.op \in {"Debug", "Display", "Serialize"}) => a.ret = b.ret
            /\ (a.op = b.op /\ a.op \in {"len", "is_empty"}
                  /\ Len(a.key.inner) = Len(b.key.inner)) => a.ret = b.ret

\* Debug was asked of two keys holding different secrets and wrote the same
\* text twice
C24_Witness ==
    /\ Len(redacted_calls) = 2
    /\ redacted_calls[1].op = "Debug" /\ redacted_calls[2].op = "Debug"
    /\ redacted_calls[1].key.inner = <<"s", "k", "-", "a">>
    /\ redacted_calls[2].key.inner = <<"s", "k", "-", "b">>
    /\ redacted_calls[1].ret = redacted_calls[2].ret

\* C25 (auth-source probe) as stated: when auth.json exists and cannot be
\* read or cannot be parsed, the single-provider probe returns Unknown and the
\* batch probe returns Unknown for every provider it was asked about, and the
\* two agree on every provider.
C25_UnknownOnBadFile ==
    (auth_file # None /\ auth_file.kind \in {"denied", "io_error", "unparsable"}) =>
        /\ probe_single # None => probe_single.ret.status = "Unknown"
        /\ probe_batch # None =>
             \A p \in probe_batch.providers : probe_batch.ret[p].status = "Unknown"
        /\ (probe_single # None /\ probe_batch # None
              /\ probe_single.provider \in probe_batch.providers) =>
                 probe_batch.ret[probe_single.provider].status = probe_single.ret.status

\* C26 (non-loopback peers): the step that accepts a connection from a peer
\* that is not loopback ends its task at once with Ok, writes no frame and
\* leaves the binding, the configuration, the effects on the backend and the
\* accept loop as they were; and in every state such a connection is closed,
\* was never upgraded (it never waited for or read a frame, is not
\* authenticated) and has had no frame written to it.
C26_State ==
    \A c \in Conns :
        (peer[c] # None /\ peer[c].some \notin LoopbackAddrs) =>
            /\ pc[c] = "done"
            /\ result[c] = "Ok"
            /\ nin[c] = 0 /\ nreq[c] = 0 /\ cur[c] = None
            /\ out[c] = <<>>
            /\ ~state[c].authenticated
            /\ accepted[c] = <<>>

C26_Step ==
    \A c \in Conns :
        (peer[c] = None /\ peer'[c] # None /\ peer'[c].some \notin LoopbackAddrs) =>
            /\ last_out' = None /\ out' = out
            /\ bindingVars' = bindingVars
            /\ configVars' = configVars
            /\ effects' = effects
            /\ accept_loop /\ accept_loop'
            /\ \A d \in Conns \ {c} : pc'[d] = pc[d] /\ result'[d] = result[d]

C26_NonLoopback == [](C26_State) /\ [][C26_Step]_vars

\* a peer that is not loopback was turned away, and the connection accepted
\* after it has authenticated and is being served
C26_Witness ==
    \E c, d \in Conns :
        /\ peer[c] = Some("192.168.1.7")
        /\ pc[c] = "done" /\ out[c] = <<>>
        /\ peer[d] = Some("127.0.0.1")
        /\ state[d].authenticated /\ pc[d] = "read" /\ Len(out[d]) = 2
        /\ accept_loop

\* C27 (text frames): the step in which a connection reads a frame that is
\* not binary writes nothing; when it is the first frame of the connection
\* the task returns Ok and the connection is closed, never authenticated; in
\* the authenticated loop the frame is ignored: nothing is dispatched, the
\* binding, the configuration and the backend are untouched, and the
\* connection stays authenticated and reads on.
C27_Step ==
    \A c \in Conns :
        (/\ nin'[c] = nin[c] + 1
         /\ last_in' # None
         /\ last_in'.frame.type # "Binary") =>
            /\ last_in'.conn = c
            /\ last_out' = None /\ out' = out
            /\ last_step' = None
            /\ cur' = cur
            /\ bindingVars' = bindingVars
            /\ configVars' = configVars
            /\ historyVars' = historyVars
            /\ effects' = effects
            /\ state' = state
            /\ IF pc[c] = "await_auth"
               THEN /\ pc'[c] = "done" /\ result'[c] = "Ok"
                    /\ ~state[c].authenticated
               ELSE /\ pc[c] = "read" /\ pc'[c] = "read"
                    /\ result'[c] = result[c]
                    /\ state[c].authenticated

C28_OwnedIffSpawned ==
    last_out # None =>
        LET payload == last_out.reply.payload IN
        /\ (payload.kind = "DiscoverServerResponse" /\ payload.server # None) =>
              ~payload.server.owned
        /\ payload.kind = "SpawnServerResponse" => payload.server.owned

\* C29 (StopServer): with a descriptor in the state, handle_stop_server
\* calls stop_pid on the descriptor's pid and writes neither cell itself. When
\* stop_pid returned true it sends ClearServer and, when the write succeeds,
\* answers StopServerResponse{success: true}; when stop_pid returned false it
\* sends no command and answers StopServerResponse{success: false}; it never
\* answers with an Error envelope. The state actor applies a ClearServer by
\* emptying the descriptor and then the client.
C29_Step ==
    \A c \in Conns :
        /\ (/\ pc[c] = "handle"
            /\ cur[c].payload.kind = "StopServer"
            /\ pc'[c] # "handle"
            /\ server[c] # None) =>
              LET cleared == command_tx'[c] = Append(command_tx[c], ClearServer) IN
              /\ server' = server
              /\ opencode_client' = opencode_client
              /\ effects'.stopped = effects.stopped \cup {server[c].pid}
              /\ cleared \/ command_tx' = command_tx
              /\ cleared <=> accepted'[c] = Append(accepted[c], ClearServer)
              /\ last_step'.conn = c
              /\ ~last_step'.err
              /\ last_step'.sent =>
                   /\ last_out'.conn = c
                   /\ last_out'.reply.request_id = cur[c].request_id
                   /\ last_out'.reply.payload.kind = "StopServerResponse"
                   /\ last_out'.reply.payload.success <=> cleared
                   /\ pc'[c] = "read"
        /\ (/\ actor[c].pc = "recv"
            /\ actor'[c].pc = "client"
            /\ actor'[c].cmd.type = "ClearServer") =>
              server'[c] = None
        /\ (/\ actor[c].pc = "client"
            /\ actor[c].cmd.type = "ClearServer"
            /\ actor'[c].pc # "client") =>
              /\ server'[c] = None
              /\ opencode_client'[c] = None

C29_StopServer == [][C29_Step]_vars

\* a StopServer whose stop_pid succeeded was just answered with success:
\* true; the ClearServer it sent is the newest command in the channel and the
\* descriptor is still in the state until the actor takes it
C29_Witness ==
    /\ last_out # None
    /\ last_out.reply.payload.kind = "StopServerResponse"
    /\ last_out.reply.payload.success
    /\ command_tx[last_out.conn] # <<>>
    /\ command_tx[last_out.conn][Len(command_tx[last_out.conn])] = ClearServer
    /\ server[last_out.conn] # None
    /\ server[last_out.conn].pid \in effects.stopped

\* spawn_and_wait returned Err(SpawnError::Timeout)
ReturnedTimeout(ret) == ret # None /\ ~ret.ok /\ ret.err = "Timeout"

\* C30 (health wait): wait_for_health returns Ok at the first probe that
\* succeeds and goes on to the backoff after a probe that fails; it gives up
\* with Timeout only when next_backoff() returned None, that is when the wait
\* drawn would end after the budget; every sleep moves the clock on, and the
\* wait always ends: from the first probe on, spawn_and_wait returns. When
\* spawn_and_wait returns Timeout the kill has been sent to the child before
\* the return, the child is not left detached, the value returned holds no
\* descriptor and handle_spawn_server sends no SetServer for it.
C30_State ==
    /\ spawn_pc = "ready" => last_probe = Some(TRUE)
    /\ spawn_pc \in {"kill", "return_err"} =>
         /\ last_probe = Some(FALSE)
         /\ health_err = Some("Timeout")
         /\ last_backoff.duration = None
         /\ last_backoff.at + last_backoff.drawn > Ticks(HEALTH_CHECK_MAX_ELAPSED)
    /\ spawn_pc = "return_err" => kill_sent
    /\ ReturnedTimeout(spawn_ret) =>
         /\ kill_sent
         /\ child \in {"killed", "exited"}
         /\ ~handle_spawn_server(spawn_ret).ok
         /\ handle_spawn_server(spawn_ret).cmd = None

C30_Step ==
    /\ (spawn_pc = "health" /\ spawn_pc' # "health") =>
         /\ spawn_pc' \in {"ready", "backoff"}
         /\ spawn_pc' = "ready" <=> last_probe' = Some(TRUE)
    /\ (spawn_pc = "backoff" /\ spawn_pc' = "health") =>
         /\ elapsed' > elapsed
         /\ elapsed' <= Ticks(HEALTH_CHECK_MAX_ELAPSED)
    /\ (spawn_ret' # spawn_ret /\ ReturnedTimeout(spawn_ret')) =>
         /\ kill_sent
         /\ kill_sent'

C30_Waiting == spawn_pc = "health"

C30_Returned == spawn_pc = "idle" /\ spawn_ret # None

C30_HealthWait == [](C30_State) /\ [][C30_Step]_vars /\ (C30_Waiting ~> C30_Returned)

\* spawn_and_wait returned Timeout after more than one probe failed and the
\* budget was used up; the kill was sent and the child is gone
C30_Witness ==
    /\ ReturnedTimeout(spawn_ret)
    /\ spawn_pc = "idle"
    /\ kill_sent
    /\ child = "killed"
    /\ last_probe = Some(FALSE)
    /\ current_interval > Ticks(INITIAL_INTERVAL)
    /\ elapsed + current_interval > Ticks(HEALTH_CHECK_MAX_ELAPSED)

\* C31 (stop_pid): a call issues at most one signal, Term where the platform
\* knows it and Kill where it does not, and no signal after the verification
\* has begun; it returns true only at a lookup that did not find the process,
\* and false from the verification only while the process is still there and
\* next_backoff() gave no further wait; once the signal is sent the call
\* always returns, whether the process exits or not.
C31_State ==
    /\ Cardinality(signals) <= 1
    /\ \A s \in signals : s.pid = stop_arg
    /\ stop_pc = "verify" => \E s \in signals : s.sent
    /\ (stop_pc = "done" /\ stop_ret) =>
         /\ stop_arg \notin processes
         /\ \E s \in signals : s.sent

C31_Step ==
    /\ stop_pc = "verify" => signals' = signals
    /\ (stop_pc = "verify" /\ stop_pc' = "done") =>
         (stop_ret' <=> stop_arg \notin processes)
    /\ (stop_pc = "verify" /\ stop_pc' = "verify" /\ backoffs' # backoffs) =>
         stop_arg \in processes

C31_Signalled == stop_pc = "verify"

C31_Returned == stop_pc = "done"

C31_StopPid == [](C31_State) /\ [][C31_Step]_vars /\ (C31_Signalled ~> C31_Returned)

\* the process was signalled once and never exited: the verification used
\* every wait of its budget and the call returned false
C31_Witness ==
    /\ stop_pc = "done"
    /\ ~stop_ret
    /\ backoffs = MaxBackoffs
    /\ stop_arg \in processes
    /\ Cardinality(signals) = 1
    /\ \A s \in signals : s.sent

\* C32 (persistence failure): when the config actor takes a config that
\* passes validation it writes it to memory while config.json is still as it
\* was, and only then saves; whatever the save returns, memory keeps the new
\* config, config.json holds either what it held or the new text, the
\* channel and the actor are as they were, and once the channel is drained
\* memory holds the latest valid config accepted, failed saves or not.
C32_State ==
    /\ config_saving # None => app_config = config_saving.some
    /\ (config_tx = <<>> /\ config_accepted # <<>>) =>
         app_config = LastValid(config_accepted)

C32_Step ==
    /\ (config_saving = None /\ config_saving' # None) =>
         /\ config_tx # <<>>
         /\ Validate(Recv(config_tx).cmd.config)
         /\ app_config' = Recv(config_tx).cmd.config
         /\ config_saving' = Some(app_config')
         /\ config_file' = config_file
    /\ (config_saving # None /\ config_saving' = None) =>
         /\ app_config' = config_saving.some
         /\ config_file' \in {config_file, Some(ToJson(config_saving.some))}
         /\ config_tx' = config_tx
         /\ config_init'

C32_PersistFailure == [](C32_State) /\ [][C32_Step]_vars

\* two valid configs were accepted and applied one after the other and no
\* save succeeded: config.json was never written and memory holds the second
C32_Witness ==
    /\ Len(config_accepted) >= 2
    /\ Validate(config_accepted[1].config)
    /\ Validate(config_accepted[2].config)
    /\ config_accepted[1].config # config_accepted[2].config
    /\ config_tx = <<>>
    /\ config_saving = None
    /\ config_file = None
    /\ app_config = config_accepted[Len(config_accepted)].config
    /\ Validate(app_config)

\* update() returned to task t
UpdateReturned(t) == task_ret[t] # None /\ task_ret[t].fn = "update"

\* C33 (lazy actor start): whatever the tasks that call update() on clones
\* of one handle do, at most one channel is made and at most one consumer is
\* spawned; only one task at a time is between the test of the flag and the
\* spawn; the sender is in the slot whenever a task is about to lock the slot
\* for its send or is sending, and whenever the flag is set; and every
\* update() that returned, returned Ok.
C33_LazyStart ==
    /\ channels <= 1
    /\ consumers <= channels
    /\ actor_init[ApiInstance] <=> consumers = 1
    /\ actor_init[ApiInstance] => tx_slot
    /\ Cardinality({t \in Tasks : task_pc[t] = "store_tx"}) <= 1
    /\ Cardinality({t \in Tasks : task_pc[t] = "send"}) <= 1
    /\ \A t \in Tasks :
         /\ task_pc[t] \in {"tx_lock", "send"} => tx_slot /\ consumers = 1
         /\ task_pc[t] = "store_tx" <=> init_guard = Some(t)
         /\ task_pc[t] = "send" <=> tx_guard = Some(t)
         /\ UpdateReturned(t) => task_ret[t].ok

\* every task has had an update() return Ok, after one channel and one
\* consumer were made
C33_Witness ==
    /\ \A t \in Tasks : UpdateReturned(t) /\ task_ret[t].ok /\ task_pc[t] = "idle"
    /\ Len(accepted[ApiInstance]) >= NumTasks
    /\ channels = 1
    /\ consumers = 1

\* some step of a task inside a call, or of the actor, can be taken
CanProgress ==
    ENABLED ((\E t \in Tasks : TaskStep(t))
               \/ ActorRecv(ApiInstance) \/ ActorClient(ApiInstance))

\* C34 (deadlock freedom): while any task is inside update() or
\* get_server(), some task or the actor can take a step, also when a sender
\* waits at a full channel with the mutex of command_tx held and other
\* senders wait for that mutex; and with a fair scheduler every call returns.
C34_State == (\E t \in Tasks : task_pc[t] # "idle") => CanProgress

C34_NoDeadlock ==
    /\ [](C34_State)
    /\ \A t \in Tasks : (task_pc[t] # "idle") ~> (task_pc[t] = "idle")

\* the channel is full, one task waits in send() with the mutex of
\* command_tx held, another waits for that mutex, and the actor holds the
\* write lock of the server cell
C34_Witness ==
    /\ Len(command_tx[ApiInstance]) = TaskChannelCapacity
    /\ actor[ApiInstance].pc = "client"
    /\ \E t \in Tasks, u \in Tasks :
         /\ task_pc[t] = "send"
         /\ task_pc[u] = "tx_lock"

\* the actor has taken every command sent and is waiting in recv()
Drained == command_tx[ApiInstance] = <<>> /\ actor[ApiInstance].pc = "recv"

\* the command sent last
LastAccepted == accepted[ApiInstance][Len(accepted[ApiInstance])]

\* C35 (eventual visibility): the commands update() accepted are the ones
\* the actor has applied followed by the ones in the channel, in the order
\* of the sends, so none is lost; the spawned actor takes a command whenever
\* the channel holds one; with a fair scheduler every accepted command is
\* applied; and once the actor has drained the channel and the last command
\* accepted is SetServer(s), the descriptor cell holds s and a get_server()
\* that returns then returns s.
C35_State ==
    /\ actor[ApiInstance].pc = "recv" =>
         accepted[ApiInstance] = applied[ApiInstance] \o command_tx[ApiInstance]
    /\ actor[ApiInstance].pc = "client" =>
         /\ accepted[ApiInstance] = applied[ApiInstance] \o command_tx[ApiInstance]
         /\ applied[ApiInstance] # <<>>
    /\ (consumers = 1 /\ actor[ApiInstance].pc = "recv" /\ command_tx[ApiInstance] # <<>>) =>
         ENABLED ActorRecv(ApiInstance)
    /\ (Drained /\ accepted[ApiInstance] # <<>> /\ LastAccepted.type = "SetServer") =>
         server[ApiInstance] = LastAccepted.info

C35_Step ==
    \A t \in Tasks :
        (/\ task_pc[t] = "read"
         /\ task_pc'[t] = "idle"
         /\ Drained
         /\ accepted[ApiInstance] # <<>>
         /\ LastAccepted.type = "SetServer") =>
            task_ret'[t] = [fn |-> "get_server", value |-> LastAccepted.info]

C35_Visible ==
    /\ [](C35_State)
    /\ [][C35_Step]_vars
    /\ \A n \in 1..(NumTasks * MaxTaskCalls) :
         (Len(accepted[ApiInstance]) >= n) ~> (Len(applied[ApiInstance]) >= n)

\* a SetServer(s) was sent after another command, the actor has applied
\* both, and a get_server() made afterwards returned s
C35_Witness ==
    /\ Drained
    /\ Len(accepted[ApiInstance]) >= 2
    /\ LastAccepted.type = "SetServer"
    /\ accepted[ApiInstance][Len(accepted[ApiInstance]) - 1] # LastAccepted
    /\ applied[ApiInstance] = accepted[ApiInstance]
    /\ \E t \in Tasks :
         /\ task_pc[t] = "idle"
         /\ task_ret[t] = [fn |-> "get_server", value |-> LastAccepted.info]

\* C36 (invalid frames in the loop): when an authenticated connection reads
\* a binary frame that does not decode, or that decodes to an envelope with
\* no payload, no handler is entered and the binding, the config, the
\* commands sent and the effects on the backend are as they were; the
\* connection is still authenticated; the reply, when its write succeeds, is
\* Error{InvalidMessage} with request_id 0 for the frame that does not decode
\* and with the envelope's request_id for the one without payload, and the
\* loop reads on; when the write fails the task ends with the error.
C36_Step ==
    \A c \in Conns :
        (/\ pc[c] = "read"
         /\ nin'[c] = nin[c] + 1
         /\ last_in' # None
         /\ last_in'.frame.type = "Binary"
         /\ \/ ~Decode(last_in'.frame.data).ok
            \/ Decode(last_in'.frame.data).msg.payload = None) =>
            LET d == Decode(last_in'.frame.data) IN
            /\ state[c].authenticated
            /\ state' = state
            /\ pc'[c] \in {"read", "done"}
            /\ cur' = cur
            /\ bindingVars' = bindingVars
            /\ configVars' = configVars
            /\ historyVars' = historyVars
            /\ effects' = effects
            /\ last_step' = None
            /\ IF last_out' # None
               THEN /\ pc'[c] = "read"
                    /\ last_out'.conn = c
                    /\ last_out'.re = last_in'.frame
                    /\ last_out'.reply.payload.kind = "Error"
                    /\ last_out'.reply.payload.code = InvalidMessage
                    /\ last_out'.reply.request_id =
                         IF d.ok THEN d.msg.request_id ELSE UndecodedRequestId
                    /\ Len(out'[c]) = Len(out[c]) + 1
               ELSE /\ pc'[c] = "done"
                    /\ result'[c] = "Err"
                    /\ out' = out

C36_InvalidFrames == [][C36_Step]_vars

\* an authenticated connection has just answered an envelope with id 2 and
\* no payload with Error{InvalidMessage} and id 2, and reads on
C36_Witness ==
    \E c \in Conns :
        /\ last_in # None /\ last_in.conn = c
        /\ last_in.frame = Frame([request_id |-> 2, payload |-> None])
        /\ last_out # None /\ last_out.conn = c
        /\ last_out.reply = ErrorResponse(2, InvalidMessage, "No payload in message")
        /\ state[c].authenticated
        /\ pc[c] = "read"
        /\ last_in.at > 1

\* C37 (read-your-writes on a connection) as stated: when a CheckHealth, a
\* StopServer or a session request is handled on a connection whose latest
\* command sent is the SetServer(d) of an earlier DiscoverServer or
\* SpawnServer, the handler finds d in the descriptor cell and the client
\* made from d in the client cell, and CheckHealth and StopServer do not
\* return the error "No server connected".
C37_Step ==
    \A c \in Conns :
        (/\ pc[c] = "handle"
         /\ pc'[c] # "handle"
         /\ cur[c].payload.kind \in {"CheckHealth", "StopServer", "ListSessions",
                                     "CreateSession", "DeleteSession"}
         /\ accepted[c] # <<>>
         /\ accepted[c][Len(accepted[c])].type = "SetServer") =>
            LET cmd == accepted[c][Len(accepted[c])] IN
            /\ server[c] = cmd.info
            /\ opencode_client[c] = ClientAfter(cmd)
            /\ cur[c].payload.kind \in {"CheckHealth", "StopServer"} => ~last_step'.err

C37_ReadYourWrites == [][C37_Step]_vars

\* C38 (UpdateConfig success) as stated: every config the handler accepted
\* (it answers success: true for exactly these) takes effect, so once the
\* config actor has drained its channel the in-memory config is the config
\* of the latest UpdateConfig accepted, and GetConfig returns it.
C38_SuccessTakesEffect ==
    (config_accepted # <<>> /\ config_tx = <<>> /\ config_saving = None) =>
        /\ app_config = config_accepted[Len(config_accepted)].config
        /\ handle_get_config(app_config).payload.app_config_json =
             ToJson(config_accepted[Len(config_accepted)].config)

\* C39 (a stop clears only what it stopped) as stated: when the state actor
\* applies a ClearServer, the descriptor it removes is that of a process
\* that no longer runs, the one the stop killed; a descriptor whose process
\* runs is never removed, so when every command has returned and the actor
\* has drained its channel, the descriptor of the latest SetServer is in the
\* cell if its process still runs.
C39_Step ==
    (/\ actor[ApiInstance].pc = "recv"
     /\ actor'[ApiInstance].pc = "client"
     /\ actor'[ApiInstance].cmd.type = "ClearServer"
     /\ server[ApiInstance] # None) =>
        server[ApiInstance].pid \notin processes

C39_StopClearsOwn == [][C39_Step]_vars

\* C40 (no orphaned child on failure) as stated: whenever spawn_and_wait has
\* returned an error after its child was launched, the kill has been sent
\* and the child is killed or gone; a child runs on after the return only
\* when the return is Ok with its descriptor.
C40_NoOrphan ==
    (spawn_pc = "idle" /\ spawn_ret # None) =>
        IF spawn_ret.ok
        THEN child = "detached"
        ELSE spawn_ret.err # "Spawn" => kill_sent /\ child \in {"killed", "exited"}


====
